---------------------------- MODULE Spec2Model ----------------------------
(***************************************************************************)
(* A state-machine model of the GliderScripts synchronisation programs:    *)
(*   - the RSync dispatcher thread                  (src/RSync.py)         *)
(*   - the Monitor/Syncer debounce loops of syncCache, syncGMC, sync2SFMC  *)
(*   - the INotify watch registry and event loop    (src/INotify.py)       *)
(*   - the pending-set aggregator the specification describes              *)
(* Each component has its own specification; the variables of the other    *)
(* components stay at their initial value in it.                           *)
(***************************************************************************)
EXTENDS Integers, Sequences, FiniteSets, TLC

VARIABLES
    \* ---- RSync (src/RSync.py)
    rsDryRun,       \* args.rsyncDryRun
    rsThread,       \* "new" before start(), "running" after
    rsQueue,        \* self.__queue: jobs waiting
    rsUnfinished,   \* queue.Queue's unfinished_tasks counter (put / task_done)
    rsPc,           \* position of run(): "get" | "run" (inside subprocess.run) | "dead"
    rsCur,          \* the job run() holds (local `sources`), NoJob when none
    rsActive,       \* jobs whose rsync subprocess is in progress
    rsPutLog,       \* history: jobs in the order put() received them
    rsDispatched,   \* history: jobs in the order run() handed them to __doit
    rsCompleted,    \* history: ids of the jobs whose __doit has ended
    rsResult,       \* history: job id -> "ok" | "nonzero" | "raised" | "dryrun"
    rsErrLog,       \* history: error-level log records, as job ids
    \* ---- Monitor / Syncer (Doit) threads of syncCache, syncGMC, sync2SFMC
    variant,        \* which program runs: "syncCache" | "syncGMC" | "sync2SFMC"
    delay,          \* args.delay
    live,           \* FALSE: bounded run with histories; TRUE: unbounded run, time kept relative
    now,            \* time.time()
    dq,             \* Syncer.queue / Doit.queue: events put by the Monitor threads
    spc,            \* position of runMain: "get" | "sleep" | "sync" | "dead"
    cur,            \* the event runMain holds, NoEvent when none
    wake,           \* when the running time.sleep may return at the earliest
    prevTime,       \* prevTime (syncCache, syncGMC) / history (sync2SFMC): key -> time
    wmOwner,        \* history: key -> the source directory whose pass set prevTime[key]
    qExcept,        \* the exception queue the threads share with the main thread
    exited,         \* the main thread has called sys.exit(1)
    putLog,         \* history: the events the Monitors put on the queue
    syncLog,        \* history: passes of the loop that got past the watermark test
    skipLog,        \* history: events the loop discarded
    nSyncs,         \* history: mirror invocations started, counted up to CountCap
    \* ---- the pending-set aggregator the specification describes
    agDelay,        \* the configured delay
    agNow,          \* the clock
    agPending,      \* the Pending Set: paths collected since the last flush
    agDeadline,     \* the single deadline, NoDeadline when not armed
    agJobs,         \* history: the Sync Jobs handed to the Dispatcher, with the flush time
    agSince,        \* history: events added to the set since the deadline was armed, up to CountCap
    \* ---- INotify (src/INotify.py), the kernel's inotify instance and the directory tree
    inFs,           \* the directories that exist
    inKernel,       \* the kernel's watches of the inotify instance: wd -> [ino, mask]
    inNextWd,       \* the watch descriptor the kernel hands out next
    inWatches,      \* self.__watches: path -> wd
    inKeys,         \* the keys of self.__watches in dict (insertion) order
    inPaths,        \* self.__paths: wd -> path
    inRecursive,    \* self.__recursive: wd -> bool
    inMask,         \* self.__mask: wd -> mask
    inRaw,          \* event records the kernel has queued on the inotify descriptor
    inQueue,        \* self.__queue: published events
    inAlive,        \* the INotify thread is running
    inRegCalls,     \* history: path -> inotify_add_watch calls made for it since it was last removed
    inInstalled,    \* history: path -> its watch was installed recursively on a directory
    inLast,         \* history: the last add / rm call, what the registry held before it, how it ended
    inKeyError,     \* history: an rm call has raised KeyError
    inOps,          \* history: number of calls and directory changes so far
    \* ---- INotify.run / INotify.__procBuffer on the bytes read from the descriptor
    dcStream,       \* the bytes the kernel delivers: well-formed records, back to back
    dcSplit,        \* how many of them the first read returns
    dcReads,        \* reads done so far: 0, 1 or 2
    dcBuf,          \* run()'s `buffer`: the remainder __procBuffer returned
    dcPub,          \* the events __procBuffer has put on the queue
    \* ---- INotify.py run as a program: the main thread and the INotify thread
    mnPc,           \* main thread: where it is in __main__ and in the add it is making
    mnArgs,         \* args.dir still to be added
    mnTodo,         \* directories os.walk has found and add has still to register
    mnPath,         \* the path of the __addWatch call the main thread is in
    mnWd,           \* the handle that call got from inotify_add_watch
    ntPc,           \* INotify thread: where it is in run / __procBuffer / add
    ntPath,         \* the path of the __addWatch call the INotify thread is in
    ntWd,           \* the handle that call got
    fsDirs,         \* the directories that exist
    knWatches,      \* the kernel's watches: directory -> watch descriptor
    knNextWd,       \* the next descriptor the kernel hands out
    knRaw,          \* records queued on the inotify descriptor
    regWatches,     \* self.__watches
    regPaths,       \* self.__paths
    evQueue,        \* self.__queue
    \* ---- sync2SFMC / syncCache / syncGMC: MyBaseThread.run and the top level
    progName,       \* which program runs
    workers,        \* its worker threads: the Syncer (Doit) and one Monitor per source
    wkPc,           \* worker -> where it is in MyBaseThread.run
    wkChild,        \* worker -> its inotifywait process: none, running or ended
    excQueue,       \* qExcept (excQueue in sync2SFMC): the workers whose exception was put
    wkPuts,         \* history: worker -> puts it has made on qExcept
    topPc,          \* the main thread: get, log, exit, exited
    topLogged,      \* the main thread has logged 'Thread exception'
    exitStatus,     \* the status the process ended with; -1 while it runs
    \* ---- the function that runs rsync for one job, in each program
    drProg,         \* whose function it is: RSync.__doit or one of the syncit functions
    drDryRun,       \* the dry-run option (args.rsyncDryRun, args.dryrun)
    drLog,          \* history: for each job processed, what the function did
    \* ---- a caller of RSync.join
    rsJoin,         \* the join call: none, waiting (in queue.join) or returned
    rsJoinSeen,     \* history: how many jobs had been put when join was called
    \* ---- syncCache / syncGMC from thread start: a Monitor and the Syncer
    stProg,         \* which program runs
    stInitial,      \* not args.noInitial
    stMon,          \* Monitor thread: start, initial, initsync (in syncit) or loop
    stWatching,     \* the inotifywait subprocess has been started
    stTodo,         \* 'gliders' directories initialSync has still to sync
    stPipe,         \* lines inotifywait has written and the Monitor has not read
    stRead,         \* history: lines the Monitor has read
    stQueue,        \* the Syncer's queue
    stSyn,          \* Syncer thread: get, sleep or sync (in syncit)
    stActive,       \* the threads that have an rsync subprocess in progress
    stSyncs,        \* history: rsync subprocesses started by the Syncer
    stInitAt,       \* history: what held when the initial sync was begun
    \* ---- RSync.put and the submitter's collection
    sbHeap,         \* the collections the submitter has made: object -> kind and items now
    sbQueue,        \* self.__queue: references to those objects
    sbPutLog,       \* history: object -> the items it held when it was put
    sbCmd,          \* history: object -> the sources rsync was invoked with
    \* ---- syncGMC and its exclude patterns
    exDirs,         \* the directories below gmcRoot
    exExclude,      \* args.exclude
    exInitial,      \* not args.noInitial
    exMon,          \* MonitorGMC thread: start, initial or loop
    exWalk,         \* directories os.walk in initialSync has still to come to
    exPipe,         \* lines inotifywait has written and the Monitor has not read
    exEvents,       \* history: number of file changes in the tree
    exQueue,        \* the Syncer's queue
    exPrev,         \* Syncer: the keys of prevTime
    exCmds,         \* history: the rsync command lines built by syncit
    exNow,          \* time.time()
    exReads,        \* history: the lines the Monitor has read
    \* ---- the Monitor's read loop and the end of inotifywait
    wtProg,         \* which program's Monitor this is
    wtPc,           \* Monitor thread: start, readline, test, raised or ended
    wtChild,        \* inotifywait: none, running or exited
    wtPipe,         \* lines inotifywait has written and the Monitor has not read
    wtWritten,      \* history: lines inotifywait has written
    wtLine,         \* what the last readline returned
    wtHandled,      \* history: lines the Monitor has gone on to handle
    wtExc,          \* qExcept
    wtTop,          \* main thread: get or exited
    wtStatus,       \* exit status of the process, -1 while it runs
    \* ---- RSync.__doit and the command line it builds
    cmArgs,         \* args: rsyncCmd, rsyncchmod, rsyncOpt, rsyncExclude, rsyncTarget
    cmLog,          \* history: the jobs given to __doit and the commands built for them
    \* ---- probar: the Historical thread
    hsWalk,         \* the file stems in the order os.walk comes to the files
    hsPc,           \* Historical thread: init, first, get, copy, dive or dead
    hsFiles,        \* self.files: the groups, each under its key
    hsIndex,        \* self.index
    hsNow,          \* time.time()
    hsQueue,        \* self.queue: the timestamps of the triggers put
    hsLast,         \* lastTime
    hsCopied,       \* history: the keys of the groups copied, in order
    hsCycleEnd,     \* history: when the last copy-and-dive cycle was completed, -1 when there was none
    hsPuts          \* history: number of triggers put

rsVars == <<rsDryRun, rsThread, rsQueue, rsUnfinished, rsPc, rsCur, rsActive,
            rsPutLog, rsDispatched, rsCompleted, rsResult, rsErrLog>>

syVars == <<variant, delay, live, now, dq, spc, cur, wake, prevTime, wmOwner, qExcept,
            exited, putLog, syncLog, skipLog, nSyncs>>

agVars == <<agDelay, agNow, agPending, agDeadline, agJobs, agSince>>

inVars == <<inFs, inKernel, inNextWd, inWatches, inKeys, inPaths, inRecursive, inMask,
            inRaw, inQueue, inAlive, inRegCalls, inInstalled, inLast, inKeyError, inOps>>

dcVars == <<dcStream, dcSplit, dcReads, dcBuf, dcPub>>

mnVars == <<mnPc, mnArgs, mnTodo, mnPath, mnWd, ntPc, ntPath, ntWd, fsDirs, knWatches,
            knNextWd, knRaw, regWatches, regPaths, evQueue>>

feVars == <<progName, workers, wkPc, wkChild, excQueue, wkPuts, topPc, topLogged, exitStatus>>

drVars == <<drProg, drDryRun, drLog>>

jnVars == <<rsJoin, rsJoinSeen>>

stVars == <<stProg, stInitial, stMon, stWatching, stTodo, stPipe, stRead, stQueue, stSyn,
            stActive, stSyncs, stInitAt>>

sbVars == <<sbHeap, sbQueue, sbPutLog, sbCmd>>

exVars == <<exDirs, exExclude, exInitial, exMon, exWalk, exPipe, exEvents, exQueue, exPrev,
            exCmds, exNow, exReads>>

wtVars == <<wtProg, wtPc, wtChild, wtPipe, wtWritten, wtLine, wtHandled, wtExc, wtTop, wtStatus>>

cmVars == <<cmArgs, cmLog>>

hsVars == <<hsWalk, hsPc, hsFiles, hsIndex, hsNow, hsQueue, hsLast, hsCopied, hsCycleEnd, hsPuts>>

vars == <<rsVars, syVars, agVars, inVars, dcVars, mnVars, feVars, drVars, jnVars, stVars,
          sbVars, exVars, wtVars, cmVars, hsVars>>

\* What the actions of one component leave alone: the other components.
rsOthers == <<syVars, agVars, inVars, dcVars, mnVars, feVars, drVars, jnVars, stVars, sbVars, exVars, wtVars, cmVars, hsVars>>
syOthers == <<rsVars, agVars, inVars, dcVars, mnVars, feVars, drVars, jnVars, stVars, sbVars, exVars, wtVars, cmVars, hsVars>>
agOthers == <<rsVars, syVars, inVars, dcVars, mnVars, feVars, drVars, jnVars, stVars, sbVars, exVars, wtVars, cmVars, hsVars>>
inOthers == <<rsVars, syVars, agVars, dcVars, mnVars, feVars, drVars, jnVars, stVars, sbVars, exVars, wtVars, cmVars, hsVars>>
dcOthers == <<rsVars, syVars, agVars, inVars, mnVars, feVars, drVars, jnVars, stVars, sbVars, exVars, wtVars, cmVars, hsVars>>
mnOthers == <<rsVars, syVars, agVars, inVars, dcVars, feVars, drVars, jnVars, stVars, sbVars, exVars, wtVars, cmVars, hsVars>>
feOthers == <<rsVars, syVars, agVars, inVars, dcVars, mnVars, drVars, jnVars, stVars, sbVars, exVars, wtVars, cmVars, hsVars>>
drOthers == <<rsVars, syVars, agVars, inVars, dcVars, mnVars, feVars, jnVars, stVars, sbVars, exVars, wtVars, cmVars, hsVars>>
stOthers == <<rsVars, syVars, agVars, inVars, dcVars, mnVars, feVars, drVars, jnVars, sbVars, exVars, wtVars, cmVars, hsVars>>
sbOthers == <<rsVars, syVars, agVars, inVars, dcVars, mnVars, feVars, drVars, jnVars, stVars, exVars, wtVars, cmVars, hsVars>>
exOthers == <<rsVars, syVars, agVars, inVars, dcVars, mnVars, feVars, drVars, jnVars, stVars, sbVars, wtVars, cmVars, hsVars>>
wtOthers == <<rsVars, syVars, agVars, inVars, dcVars, mnVars, feVars, drVars, jnVars, stVars, sbVars, exVars, cmVars, hsVars>>
cmOthers == <<rsVars, syVars, agVars, inVars, dcVars, mnVars, feVars, drVars, jnVars, stVars, sbVars, exVars, wtVars, hsVars>>
hsOthers == <<rsVars, syVars, agVars, inVars, dcVars, mnVars, feVars, drVars, jnVars, stVars, sbVars, exVars, wtVars, cmVars>>

-----------------------------------------------------------------------------
(* Generic helpers *)

IsPrefix(s, t) == Len(s) <= Len(t) /\ SubSeq(t, 1, Len(s)) = s

SeqToSet(s) == {s[i] : i \in DOMAIN s}

-----------------------------------------------------------------------------
(* RSync dispatcher: src/RSync.py *)

\* Bound: how many jobs are put in one run of the model.
MaxJobs == 3

\* The source tuples a caller passes to put().
JobSources == {<<"s1">>, <<"s2">>, <<"s1", "s2">>}

NoJob == [id |-> 0, sources |-> <<>>]

\* What subprocess.run can do: exit 0, exit non-zero, or fail to launch (raise).
RunOutcomes == {"ok", "nonzero", "raised"}

RSInit ==
    /\ rsDryRun \in BOOLEAN
    /\ rsThread = "new"
    /\ rsQueue = <<>>
    /\ rsUnfinished = 0
    /\ rsPc = "get"
    /\ rsCur = NoJob
    /\ rsActive = {}
    /\ rsPutLog = <<>>
    /\ rsDispatched = <<>>
    /\ rsCompleted = {}
    /\ rsResult = <<>>
    /\ rsErrLog = <<>>
    /\ rsJoin = "none"
    /\ rsJoinSeen = 0

\* The dispatcher at rest, for the specifications of the other components.
RSInitIdle == RSInit /\ rsDryRun = FALSE

\* Thread.start()
RSStart ==
    /\ rsThread = "new"
    /\ rsThread' = "running"
    /\ UNCHANGED <<rsDryRun, rsQueue, rsUnfinished, rsPc, rsCur, rsActive,
                   rsPutLog, rsDispatched, rsCompleted, rsResult, rsErrLog>>
    /\ UNCHANGED rsOthers

\* RSync.put: queue.put(sources)
RSPut(src) ==
    /\ Len(rsPutLog) < MaxJobs
    /\ LET job == [id |-> Len(rsPutLog) + 1, sources |-> src] IN
        /\ rsQueue' = Append(rsQueue, job)
        /\ rsPutLog' = Append(rsPutLog, job)
    /\ rsUnfinished' = rsUnfinished + 1
    /\ UNCHANGED <<rsDryRun, rsThread, rsPc, rsCur, rsActive,
                   rsDispatched, rsCompleted, rsResult, rsErrLog>>
    /\ UNCHANGED rsOthers

\* queue.Queue.get(): a mutant that takes the newest item instead of the oldest.
QGetNewest(q) == [item |-> q[Len(q)], rest |-> SubSeq(q, 1, Len(q) - 1)]

\* queue.Queue.get(): the oldest item (FIFO).
QGet(q) == [item |-> Head(q), rest |-> Tail(q)]

\* run() is at queue.get(): subprocess.run blocks the loop until the child ends.
RSReady == rsPc = "get"

\* run(): sources = queue.get(); __doit(sources) up to the point where it either
\* returns (dry run) or blocks in subprocess.run.
RSGet ==
    /\ rsThread = "running"
    /\ RSReady
    /\ rsQueue # <<>>
    /\ LET g == QGet(rsQueue) IN
        /\ rsQueue' = g.rest
        /\ rsDispatched' = Append(rsDispatched, g.item)
        /\ IF rsDryRun
           THEN \* __doit returns True without a subprocess; run() calls task_done
                /\ rsPc' = "get"
                /\ rsCur' = NoJob
                /\ rsActive' = rsActive
                /\ rsCompleted' = rsCompleted \cup {g.item.id}
                /\ rsResult' = Append(rsResult, "dryrun")
                /\ rsUnfinished' = rsUnfinished - 1
           ELSE /\ rsPc' = "run"
                /\ rsCur' = g.item
                /\ rsActive' = rsActive \cup {g.item.id}
                /\ UNCHANGED <<rsCompleted, rsResult, rsUnfinished>>
    /\ UNCHANGED <<rsDryRun, rsThread, rsPutLog, rsErrLog>>
    /\ UNCHANGED rsOthers

\* A mutant: a non-zero exit status ends the worker loop.
RSAfterHalts(outcome) == IF outcome = "nonzero" THEN "dead" ELSE "get"

\* Where run() continues after __doit: always back to queue.get(), whatever
\* __doit returned or raised (the bare except around it).
RSAfter(outcome) == "get"

\* subprocess.run ends (or raised at launch); __doit logs and returns; run()
\* catches any exception and calls task_done.
RSFinish(outcome) ==
    /\ rsPc = "run"
    /\ rsActive' = rsActive \ {rsCur.id}
    /\ rsCompleted' = rsCompleted \cup {rsCur.id}
    /\ rsResult' = Append(rsResult, outcome)
    /\ rsErrLog' = IF outcome = "ok" THEN rsErrLog ELSE Append(rsErrLog, rsCur.id)
    /\ rsUnfinished' = rsUnfinished - 1
    /\ rsPc' = RSAfter(outcome)
    /\ rsCur' = NoJob
    /\ UNCHANGED <<rsDryRun, rsThread, rsQueue, rsPutLog, rsDispatched>>
    /\ UNCHANGED rsOthers

-----------------------------------------------------------------------------
(* The Monitor and Syncer (Doit) threads of src/syncCache.py, src/syncGMC.py
   and src/sync2SFMC.py.  One run of the model is one of the three programs
   (variant).  A path is the sequence of its components. *)

\* Bound: the last instant at which a bounded run lets time advance; in an
\* unbounded (live) run, the fixed value of `now` that times are relative to.
MaxTime == 4

\* Bound: the largest configured delay.
MaxDelay == 2

\* Bound: how many events the Monitors put in a bounded run.
MaxEvents == 3

\* Bound: how many events wait in the queue in an unbounded (live) run.
MaxQueue == 2

\* Bound: where the counter of started mirror invocations stops counting.
CountCap == 2

Variants == {"syncCache", "syncGMC", "sync2SFMC"}

\* args.delay (seconds, as ticks of the model's clock)
Delays == {0, MaxDelay}

\* syncCache: the directories inotifywait reports (and the rootDir of the initial put)
CacheLines == {<<"c", "st1">>, <<"c", "st2">>}

\* syncGMC: the directories inotifywait reports below gmcRoot
GMCLines == {<<"r", "A", "gliders", "g1">>, <<"r", "B", "gliders", "g1">>, <<"r", "A", "logs">>}

\* sync2SFMC: Monitor.src, Monitor.fn and the files inotifywait reports
SFMCSrc == <<"s">>
SFMCFiles == {"f"}
SFMCLines == {<<"s", "g1", "f">>, <<"s", "g2", "f">>, <<"s", "g1", "x">>, <<"s", "g1", "sub", "f">>}

\* What archiveFile and qSane find when Doit looks at the file
FileStates == {"unreadable", "insane", "sane"}

NoEvent == [t |-> 0, src |-> <<>>, key |-> <<>>, qDelay |-> FALSE]

\* os.path.basename / os.path.dirname on a path given by its components
Basename(p) == IF p = <<>> THEN "" ELSE p[Len(p)]
Dirname(p) == IF p = <<>> THEN <<>> ELSE SubSeq(p, 1, Len(p) - 1)

Reverse(s) == [i \in 1..Len(s) |-> s[Len(s) + 1 - i]]

\* d[k] = v on a Python dict
DictSet(d, k, v) == [x \in (DOMAIN d) \cup {k} |-> IF x = k THEN v ELSE d[x]]

\* Histories are kept in bounded runs only.
Record(log, x) == IF live THEN log ELSE Append(log, x)
Bump(n) == IF n < CountCap THEN n + 1 ELSE n
Dec0(x) == IF x > 0 THEN x - 1 ELSE 0

\* MonitorGMC.runMain: the limit on the components collected while looking for 'gliders'
MaxTgt == 20

\* MonitorGMC.runMain: the while loop that walks up from the event directory
\* collecting basenames until one is 'gliders'.
RECURSIVE GlidersWalk(_, _)
GlidersWalk(line, tgt) ==
    IF ~(Len(line) > 0 /\ Len(tgt) < MaxTgt)
    THEN [found |-> FALSE, tgt |-> tgt]
    ELSE LET tgtFN == Basename(line) IN
         IF tgtFN = ""
         THEN [found |-> FALSE, tgt |-> tgt]
         ELSE IF tgtFN = "gliders"
              THEN [found |-> TRUE, tgt |-> Append(tgt, tgtFN)]
              ELSE GlidersWalk(Dirname(line), Append(tgt, tgtFN))

\* A mutant of the prefix: 'gliders' itself stays in front.
GlidersPrefixWhole(tgt) == Reverse(tgt)

\* MonitorGMC.runMain: tgt.reverse(); prefix = '/'.join(tgt[1:])
GlidersPrefix(tgt) == Tail(Reverse(tgt))

SyInit(isLive, variants) ==
    /\ variant \in variants
    /\ delay \in Delays
    /\ live = isLive
    /\ now = IF isLive THEN MaxTime ELSE 0
    /\ dq = <<>>
    /\ spc = "get"
    /\ cur = NoEvent
    /\ wake = 0
    /\ prevTime = <<>>
    /\ wmOwner = <<>>
    /\ qExcept = <<>>
    /\ exited = FALSE
    /\ putLog = <<>>
    /\ syncLog = <<>>
    /\ skipLog = <<>>
    /\ nSyncs = 0

\* The sync programs at rest, for the specifications of the other components.
SyIdle ==
    /\ variant = "syncCache" /\ delay = 0 /\ live = FALSE /\ now = 0
    /\ dq = <<>> /\ spc = "get" /\ cur = NoEvent /\ wake = 0 /\ prevTime = <<>>
    /\ wmOwner = <<>>
    /\ qExcept = <<>> /\ exited = FALSE
    /\ putLog = <<>> /\ syncLog = <<>> /\ skipLog = <<>> /\ nSyncs = 0

\* The clock.  In a bounded run `now` advances.  In an unbounded run `now` stays
\* and every stored time moves one tick into the past instead; times that can no
\* longer decide a comparison stop at a floor, and time does not pass while an
\* event that is still to be compared would fall below zero.
Tick ==
    /\ IF live
       THEN /\ \A i \in DOMAIN dq : dq[i].t >= 1
            /\ dq' = [i \in DOMAIN dq |-> [dq[i] EXCEPT !.t = @ - 1]]
            /\ cur' = IF spc \in {"sleep", "sync"}
                      THEN [cur EXCEPT !.t = IF @ > 0 - MaxDelay THEN @ - 1 ELSE @]
                      ELSE cur
            /\ wake' = Dec0(wake)
            /\ prevTime' = [k \in DOMAIN prevTime |-> Dec0(prevTime[k])]
            /\ now' = now
       ELSE /\ now < MaxTime
            /\ now' = now + 1
            /\ UNCHANGED <<dq, cur, wake, prevTime>>
    /\ UNCHANGED <<variant, delay, live, spc, wmOwner, qExcept, exited, putLog, syncLog,
                   skipLog, nSyncs>>
    /\ UNCHANGED syOthers

\* A Monitor may read another line of inotifywait's output.
CanRead ==
    /\ ~exited
    /\ IF live THEN Len(dq) < MaxQueue ELSE Len(putLog) < MaxEvents

\* syncCache Monitor.runMain: syncer.put((time.time(), line)), for a line read
\* from inotifywait and for the initial put of rootDir.
CacheMonitor(line) ==
    /\ variant = "syncCache"
    /\ CanRead
    /\ LET e == [t |-> now, src |-> line, key |-> line, qDelay |-> TRUE] IN
        /\ dq' = Append(dq, e)
        /\ putLog' = Record(putLog, e)
    /\ UNCHANGED <<variant, delay, live, now, spc, cur, wake, prevTime, wmOwner, qExcept,
                   exited, syncLog, skipLog, nSyncs>>
    /\ UNCHANGED syOthers

\* syncGMC MonitorGMC.runMain: one line of inotifywait's output.
GMCMonitor(line) ==
    /\ variant = "syncGMC"
    /\ CanRead
    /\ LET g == GlidersWalk(line, <<>>)
           e == [t |-> now, src |-> line,
                 key |-> IF g.found THEN GlidersPrefix(g.tgt) ELSE <<>>,
                 qDelay |-> TRUE]
       IN  /\ dq' = IF g.found THEN Append(dq, e) ELSE dq
           /\ putLog' = IF g.found THEN Record(putLog, e) ELSE putLog
    /\ UNCHANGED <<variant, delay, live, now, spc, cur, wake, prevTime, wmOwner, qExcept,
                   exited, syncLog, skipLog, nSyncs>>
    /\ UNCHANGED syOthers

\* sync2SFMC Monitor.runMain: one line of inotifywait's output.
SFMCMonitor(line) ==
    /\ variant = "sync2SFMC"
    /\ CanRead
    /\ LET fn == Basename(line)
           prefix == Dirname(line)
           ok == fn \in SFMCFiles /\ Dirname(prefix) = SFMCSrc
           e == [t |-> now, src |-> line, key |-> line, qDelay |-> TRUE]
       IN  /\ dq' = IF ok THEN Append(dq, e) ELSE dq
           /\ putLog' = IF ok THEN Record(putLog, e) ELSE putLog
    /\ UNCHANGED <<variant, delay, live, now, spc, cur, wake, prevTime, wmOwner, qExcept,
                   exited, syncLog, skipLog, nSyncs>>
    /\ UNCHANGED syOthers

\* A mutant of time.sleep: it returns at once.
SleepUntilNoWait(t0, d) == t0

\* time.sleep(d) called at t0 returns at t0 + d at the earliest.
SleepUntil(t0, d) == t0 + d

\* The entry a pass of the loop leaves in the history.
Pass(e, ran) ==
    [src |-> e.src, key |-> e.key, t |-> e.t, start |-> now, ran |-> ran]

\* The entry a discarded event leaves in the history.
Skipped(e) ==
    [src |-> e.src, key |-> e.key, t |-> e.t, at |-> now, owner |-> wmOwner[e.key]]

\* ---- syncCache: Syncer.runMain

\* A mutant: once a key has a watermark, every later event of the key is skipped.
CacheQuickAlways(e) == e.key \in DOMAIN prevTime

\* A mutant of the watermark test: nothing is ever a recent update.
CacheQuickNever(e) == FALSE

\* `src in prevTime and t < prevTime[src]`
CacheQuick(e) == e.key \in DOMAIN prevTime /\ e.t < prevTime[e.key]

\* A mutant of the watermark: it counts back from the end of the run.
CacheMarkBack(e) == MaxTime - e.t

\* `prevTime[src] = t + args.delay`
CacheMark(e) == e.t + delay

\* (t, src) = q.get(); q.task_done(); the watermark test; then time.sleep begins.
CacheSyncerGet ==
    /\ variant = "syncCache" /\ ~exited
    /\ spc = "get" /\ dq # <<>>
    /\ LET e == Head(dq) IN
        /\ dq' = Tail(dq)
        /\ IF CacheQuick(e)
           THEN /\ skipLog' = Record(skipLog, Skipped(e))
                /\ UNCHANGED <<spc, cur, wake>>
           ELSE /\ spc' = "sleep"
                /\ cur' = e
                /\ wake' = SleepUntil(now, delay)
                /\ UNCHANGED skipLog
    /\ UNCHANGED <<variant, delay, live, now, prevTime, wmOwner, qExcept, exited,
                   putLog, syncLog, nSyncs>>
    /\ UNCHANGED syOthers

\* time.sleep returns; prevTime[src] = t + args.delay; syncit(src) starts rsync.
CacheSyncerWake ==
    /\ variant = "syncCache" /\ ~exited
    /\ spc = "sleep" /\ now >= wake
    /\ prevTime' = DictSet(prevTime, cur.key, CacheMark(cur))
    /\ wmOwner' = DictSet(wmOwner, cur.key, cur.src)
    /\ spc' = "sync"
    /\ wake' = 0
    /\ syncLog' = Record(syncLog, Pass(cur, TRUE))
    /\ nSyncs' = Bump(nSyncs)
    /\ UNCHANGED <<variant, delay, live, now, dq, cur, qExcept, exited, putLog, skipLog>>
    /\ UNCHANGED syOthers

\* Syncer.syncit: subprocess.run returns or raises.  syncit has no try/except,
\* so an exception leaves runMain and MyBaseThread.run puts it on qExcept.
CacheSyncDone(outcome) ==
    /\ variant = "syncCache" /\ ~exited
    /\ spc = "sync"
    /\ cur' = NoEvent
    /\ IF outcome = "raised"
       THEN spc' = "dead" /\ qExcept' = Append(qExcept, "Exception")
       ELSE spc' = "get" /\ UNCHANGED qExcept
    /\ UNCHANGED <<variant, delay, live, now, dq, wake, prevTime, wmOwner, exited,
                   putLog, syncLog, skipLog, nSyncs>>
    /\ UNCHANGED syOthers

\* ---- syncGMC: Syncer.runMain

\* `prefix in prevTime and t < prevTime[prefix]`
GMCQuick(e) == e.key \in DOMAIN prevTime /\ e.t < prevTime[e.key]

\* `prevTime[prefix] = time.time()`
GMCMark(e) == now

\* `qDelay and self.args.delay is not None and self.args.delay > 0`
GMCSleeps(e) == e.qDelay /\ delay > 0

\* (t, src, prefix, qDelay) = q.get(); q.task_done(); the watermark test; then
\* either time.sleep begins or, with no delay, the watermark is set and syncit starts.
GMCSyncerGet ==
    /\ variant = "syncGMC" /\ ~exited
    /\ spc = "get" /\ dq # <<>>
    /\ LET e == Head(dq) IN
        /\ dq' = Tail(dq)
        /\ IF GMCQuick(e)
           THEN /\ skipLog' = Record(skipLog, Skipped(e))
                /\ UNCHANGED <<spc, cur, wake, prevTime, wmOwner, syncLog, nSyncs>>
           ELSE IF GMCSleeps(e)
           THEN /\ spc' = "sleep"
                /\ cur' = e
                /\ wake' = SleepUntil(now, delay)
                /\ UNCHANGED <<skipLog, prevTime, wmOwner, syncLog, nSyncs>>
           ELSE /\ prevTime' = DictSet(prevTime, e.key, GMCMark(e))
                /\ wmOwner' = DictSet(wmOwner, e.key, e.src)
                /\ spc' = "sync"
                /\ cur' = e
                /\ syncLog' = Record(syncLog, Pass(e, TRUE))
                /\ nSyncs' = Bump(nSyncs)
                /\ UNCHANGED <<skipLog, wake>>
    /\ UNCHANGED <<variant, delay, live, now, qExcept, exited, putLog>>
    /\ UNCHANGED syOthers

\* time.sleep returns; prevTime[prefix] = time.time(); syncit(...) starts rsync.
GMCSyncerWake ==
    /\ variant = "syncGMC" /\ ~exited
    /\ spc = "sleep" /\ now >= wake
    /\ prevTime' = DictSet(prevTime, cur.key, GMCMark(cur))
    /\ wmOwner' = DictSet(wmOwner, cur.key, cur.src)
    /\ spc' = "sync"
    /\ wake' = 0
    /\ syncLog' = Record(syncLog, Pass(cur, TRUE))
    /\ nSyncs' = Bump(nSyncs)
    /\ UNCHANGED <<variant, delay, live, now, dq, cur, qExcept, exited, putLog, skipLog>>
    /\ UNCHANGED syOthers

\* syncit: subprocess.run returns or raises; syncit catches the exception and
\* returns False, and runMain goes on with the next q.get().
GMCSyncDone(outcome) ==
    /\ variant = "syncGMC" /\ ~exited
    /\ spc = "sync"
    /\ cur' = NoEvent
    /\ spc' = "get"
    /\ UNCHANGED <<variant, delay, live, now, dq, wake, prevTime, wmOwner, qExcept,
                   exited, putLog, syncLog, skipLog, nSyncs>>
    /\ UNCHANGED syOthers

\* ---- sync2SFMC: Doit.runMain

\* The delay used when args.delay <= 0: one tick of the model's clock stands for
\* the 0.1 s of the code then.
SFMCMinDelay == 1

\* `delay = self.delay; if delay <= 0: delay = 0.1`
SFMCDelay == IF delay <= 0 THEN SFMCMinDelay ELSE delay

\* `src in history and (t <= (history[src] + delay))`
SFMCQuick(e) == e.key \in DOMAIN prevTime /\ e.t <= prevTime[e.key] + SFMCDelay

\* `history[src] = t`
SFMCMark(e) == e.t

\* (t, src, gld, fn) = q.get(); q.task_done(); the watermark test;
\* history[src] = t; then time.sleep begins.
SFMCDoitGet ==
    /\ variant = "sync2SFMC" /\ ~exited
    /\ spc = "get" /\ dq # <<>>
    /\ LET e == Head(dq) IN
        /\ dq' = Tail(dq)
        /\ IF SFMCQuick(e)
           THEN /\ skipLog' = Record(skipLog, Skipped(e))
                /\ UNCHANGED <<spc, cur, wake, prevTime, wmOwner>>
           ELSE /\ prevTime' = DictSet(prevTime, e.key, SFMCMark(e))
                /\ wmOwner' = DictSet(wmOwner, e.key, e.src)
                /\ spc' = "sleep"
                /\ cur' = e
                /\ wake' = SleepUntil(now, SFMCDelay)
                /\ UNCHANGED skipLog
    /\ UNCHANGED <<variant, delay, live, now, qExcept, exited, putLog, syncLog, nSyncs>>
    /\ UNCHANGED syOthers

\* time.sleep returns; archiveFile and qSane look at the file; only a readable,
\* sane file is passed to syncit.
SFMCDoitWake(file) ==
    /\ variant = "sync2SFMC" /\ ~exited
    /\ spc = "sleep" /\ now >= wake
    /\ wake' = 0
    /\ IF file = "sane"
       THEN /\ spc' = "sync"
            /\ syncLog' = Record(syncLog, Pass(cur, TRUE))
            /\ nSyncs' = Bump(nSyncs)
            /\ UNCHANGED cur
       ELSE /\ spc' = "get"
            /\ syncLog' = Record(syncLog, Pass(cur, FALSE))
            /\ cur' = NoEvent
            /\ UNCHANGED nSyncs
    /\ UNCHANGED <<variant, delay, live, now, dq, prevTime, wmOwner, qExcept, exited,
                   putLog, skipLog>>
    /\ UNCHANGED syOthers

\* Doit.syncit: subprocess.run returns or raises.  syncit has no try/except,
\* so an exception leaves runMain and MyBaseThread.run puts it on the queue.
SFMCSyncDone(outcome) ==
    /\ variant = "sync2SFMC" /\ ~exited
    /\ spc = "sync"
    /\ cur' = NoEvent
    /\ IF outcome = "raised"
       THEN spc' = "dead" /\ qExcept' = Append(qExcept, "Exception")
       ELSE spc' = "get" /\ UNCHANGED qExcept
    /\ UNCHANGED <<variant, delay, live, now, dq, wake, prevTime, wmOwner, exited,
                   putLog, syncLog, skipLog, nSyncs>>
    /\ UNCHANGED syOthers

\* The main thread: e = qExcept.get(); raise(e); logger.exception; sys.exit(1)
MainExit ==
    /\ ~exited
    /\ qExcept # <<>>
    /\ qExcept' = Tail(qExcept)
    /\ exited' = TRUE
    /\ UNCHANGED <<variant, delay, live, now, dq, spc, cur, wake, prevTime, wmOwner,
                   putLog, syncLog, skipLog, nSyncs>>
    /\ UNCHANGED syOthers

-----------------------------------------------------------------------------
(* The pending-set aggregator, from the specification's Event Filtering and
   Debounce section: the set of pending paths and its single deadline. *)

\* Bound: how many Sync Jobs the aggregator hands over in one run of the model.
MaxFlush == 2

NoDeadline == 0 - 1

\* Events as the filter sees them: the kind, the triggering prefix (<<>> when
\* no trigger matches), whether an exclude matches, whether the prefix is a
\* directory.
AgEvents ==
    { [kind |-> "IGNORED", prefix |-> <<"g", "st1">>, excluded |-> FALSE, isDir |-> TRUE],
      [kind |-> "MODIFY", prefix |-> <<>>, excluded |-> FALSE, isDir |-> TRUE],
      [kind |-> "MODIFY", prefix |-> <<"g", "st1">>, excluded |-> TRUE, isDir |-> TRUE],
      [kind |-> "MODIFY", prefix |-> <<"g", "st1">>, excluded |-> FALSE, isDir |-> TRUE],
      [kind |-> "MODIFY", prefix |-> <<"g", "st2">>, excluded |-> FALSE, isDir |-> TRUE],
      [kind |-> "MODIFY", prefix |-> <<"g", "st1", "f">>, excluded |-> FALSE, isDir |-> FALSE] }

\* What an event contributes to the Pending Set: nothing (<<>>) for an IGNORED
\* event, for one that matches no trigger and for one that matches an exclude;
\* otherwise its triggering prefix, or the parent directory when that is a file.
AgContribution(e) ==
    IF e.kind = "IGNORED" \/ e.prefix = <<>> \/ e.excluded
    THEN <<>>
    ELSE IF e.isDir THEN e.prefix ELSE Dirname(e.prefix)

\* A mutant: every event re-arms the deadline.
AgArmAlways(pending, deadline, t) == t + agDelay

\* The deadline after an event is added at time t: armed to t + delay when the
\* set was empty, left alone otherwise.
AgArm(pending, deadline, t) == IF pending = {} THEN t + agDelay ELSE deadline

AgInit ==
    /\ agDelay \in Delays
    /\ agNow = 0
    /\ agPending = {}
    /\ agDeadline = NoDeadline
    /\ agJobs = <<>>
    /\ agSince = 0

AgIdle == AgInit /\ agDelay = 0

AgTick ==
    /\ agNow < MaxTime
    /\ agNow' = agNow + 1
    /\ UNCHANGED <<agDelay, agPending, agDeadline, agJobs, agSince>>
    /\ UNCHANGED agOthers

\* The blocking receive returns an event.
AgReceive(e) ==
    /\ Len(agJobs) < MaxFlush
    /\ LET c == AgContribution(e) IN
        IF c = <<>>
        THEN UNCHANGED <<agPending, agDeadline, agSince>>
        ELSE /\ agPending' = agPending \cup {c}
             /\ agDeadline' = AgArm(agPending, agDeadline, agNow)
             /\ agSince' = IF agPending = {} THEN 1 ELSE Bump(agSince)
    /\ UNCHANGED <<agDelay, agNow, agJobs>>
    /\ UNCHANGED agOthers

\* The blocking receive times out at the deadline: the whole set goes to the
\* Dispatcher as one Sync Job, the set is cleared and the deadline disarmed.
AgFlush ==
    /\ agDeadline # NoDeadline
    /\ agNow >= agDeadline
    /\ agJobs' = Append(agJobs, [paths |-> agPending, at |-> agNow])
    /\ agPending' = {}
    /\ agDeadline' = NoDeadline
    /\ agSince' = 0
    /\ UNCHANGED <<agDelay, agNow>>
    /\ UNCHANGED agOthers

-----------------------------------------------------------------------------
(* INotify watch registry and event loop: src/INotify.py *)

\* Bound: how many calls and directory changes happen in one run of the model.
MaxOps == 4

\* Paths are strings, modelled as sequences of characters.
PD == <<"/", "d">>
PDs == <<"/", "d", "/">>
PDa == <<"/", "d", "/", "a">>
PDas == <<"/", "d", "/", "a", "/">>
PDab == <<"/", "d", "/", "a", "b">>
PDac == <<"/", "d", "/", "a", "/", "c">>

\* The directories that can exist, in the order os.walk("/d") reaches them.
WalkOrder == <<PDa, PDab, PDac>>
AllDirs == {PD} \cup SeqToSet(WalkOrder)

\* The paths a caller passes to add() and rm().
CallPaths == {PD, PDs, PDa, PDas, PDab}

\* Masks: the one with CREATE and DELETE in it, for directory recursion, and
\* one without.
Masks == {"dirs", "files"}

\* os.path.join(root, name)
Join(root, name) ==
    IF root # <<>> /\ root[Len(root)] = "/" THEN root \o name ELSE root \o <<"/">> \o name

\* The directory a path names: the kernel's path lookup ignores a trailing slash.
Resolve(path) ==
    IF Len(path) > 1 /\ path[Len(path)] = "/" THEN SubSeq(path, 1, Len(path) - 1) ELSE path

\* os.path.isdir(path)
IsDir(fs, path) == Resolve(path) \in fs

\* Directory q lies below directory p in the tree.
Below(p, q) == Len(q) > Len(p) + 1 /\ IsPrefix(p \o <<"/">>, q)

\* The parent directory of a directory below /d, and its name in the parent.
ParentDir(q) ==
    CHOOSE p \in AllDirs : Below(p, q) /\ \A p2 \in AllDirs : Below(p2, q) => Len(p2) <= Len(p)
EntryName(q) == SubSeq(q, Len(ParentDir(q)) + 2, Len(q))

\* str.find(sub) == 0
FindAtZero(key, sub) == IsPrefix(sub, key)

\* Removing and setting entries of a dict.
DictDel(d, k) == [x \in DOMAIN d \ {k} |-> d[x]]
SeqDel(s, x) == SelectSeq(s, LAMBDA y : y # x)

\* The registry, the kernel's watch table and the histories, as one value the
\* methods pass along.
Registry ==
    [watches |-> inWatches, keys |-> inKeys, paths |-> inPaths,
     recursive |-> inRecursive, mask |-> inMask,
     kernel |-> inKernel, nextWd |-> inNextWd,
     calls |-> inRegCalls, installed |-> inInstalled, raised |-> FALSE]

\* inotify_add_watch as __callLibC returns it: the descriptor of the watch on
\* the directory (the one it already has, or a new one), and 0 when the call
\* fails, because ctypes.get_errno() reads 0 for a library loaded without
\* use_errno.
AddWatchWd(r, fs, path) ==
    IF ~IsDir(fs, path) THEN 0
    ELSE IF \E w \in DOMAIN r.kernel : r.kernel[w].ino = Resolve(path)
         THEN CHOOSE w \in DOMAIN r.kernel : r.kernel[w].ino = Resolve(path)
         ELSE r.nextWd

\* A mutant: __addWatch without its test of self.__watches.
InRegistryNever(r, path) == FALSE

\* __addWatch: `if path in self.__watches: return`
InRegistry(r, path) == path \in DOMAIN r.watches

\* INotify.__addWatch
AddWatch(r, fs, path, recursive, mask) ==
    IF InRegistry(r, path) THEN r
    ELSE LET wd == AddWatchWd(r, fs, path) IN
         [r EXCEPT
            !.kernel = IF wd = 0 THEN @ ELSE DictSet(@, wd, [ino |-> Resolve(path), mask |-> mask]),
            !.nextWd = IF wd = @ THEN @ + 1 ELSE @,
            !.watches = DictSet(@, path, wd),
            !.keys = IF path \in SeqToSet(@) THEN @ ELSE Append(@, path),
            !.paths = DictSet(@, wd, path),
            !.recursive = DictSet(@, wd, recursive /\ IsDir(fs, path)),
            !.mask = DictSet(@, wd, mask),
            !.calls = DictSet(@, path, (IF path \in DOMAIN @ THEN @[path] ELSE 0) + 1),
            !.installed = DictSet(@, path, recursive /\ IsDir(fs, path))]

\* The subdirectories os.walk finds in `top`, as the paths add() joins.
Kids(fs, top) ==
    LET kids == SelectSeq(WalkOrder, LAMBDA q : q \in fs /\ ParentDir(q) = Resolve(top))
    IN  [i \in DOMAIN kids |-> Join(top, EntryName(kids[i]))]

\* os.walk(path), top down: the directories of each root, then each of them as a root.
RECURSIVE WalkAll(_, _)
WalkAll(fs, tops) ==
    IF tops = <<>> THEN <<>>
    ELSE LET kids == Kids(fs, Head(tops)) IN kids \o WalkAll(fs, kids \o Tail(tops))

RECURSIVE AddAll(_, _, _, _, _)
AddAll(r, fs, items, recursive, mask) ==
    IF items = <<>> THEN r
    ELSE AddAll(AddWatch(r, fs, Head(items), recursive, mask), fs, Tail(items), recursive, mask)

AddPathNoWalk(r, fs, path, recursive, mask) == AddWatch(r, fs, path, recursive, mask)

\* INotify.add
AddPath(r, fs, path, recursive, mask) ==
    LET r1 == AddWatch(r, fs, path, recursive, mask) IN
    IF ~recursive \/ ~IsDir(fs, path) THEN r1
    ELSE AddAll(r1, fs, WalkAll(fs, <<path>>), recursive, mask)

\* INotify.__rmWatch: the registry afterwards and the value returned; `raised`
\* when self.__recursive[wd] is a KeyError.
RmWatch(r, path) ==
    IF path \notin DOMAIN r.watches THEN [reg |-> r, recursive |-> FALSE]
    ELSE LET wd == r.watches[path] IN
         IF wd \notin DOMAIN r.recursive
         THEN [reg |-> [r EXCEPT !.raised = TRUE], recursive |-> FALSE]
         ELSE [reg |-> [r EXCEPT
                          !.watches = DictDel(@, path),
                          !.keys = SeqDel(@, path),
                          !.paths = DictDel(@, wd),
                          !.recursive = DictDel(@, wd),
                          !.mask = DictDel(@, wd),
                          !.kernel = DictDel(@, wd),
                          !.calls = DictDel(@, path),
                          !.installed = DictDel(@, path)],
               recursive |-> r.recursive[wd]]

RECURSIVE RmAll(_, _)
RmAll(r, items) ==
    IF items = <<>> \/ r.raised THEN r
    ELSE RmAll(RmWatch(r, Head(items)).reg, Tail(items))

\* INotify.rm
RmPath(r, path) ==
    LET first == RmWatch(r, path) IN
    IF first.reg.raised \/ ~first.recursive THEN first.reg
    ELSE RmAll(first.reg, SelectSeq(first.reg.keys, LAMBDA key : FindAtZero(key, path)))

NoCall ==
    [by |-> "none", op |-> "none", path |-> <<>>, before |-> {}, recursive |-> FALSE,
     returned |-> TRUE]

\* The record of a call: who made it (the program, or the event loop), what it
\* was, which paths the registry held before it, whether the path's watch had
\* been installed recursively on a directory, and whether the call returned.
Call(by, op, path, r) ==
    [by |-> by, op |-> op, path |-> path, before |-> DOMAIN inWatches,
     recursive |-> path \in DOMAIN inInstalled /\ inInstalled[path],
     returned |-> ~r.raised]

InInit ==
    /\ inFs = {PD, PDa}
    /\ inKernel = <<>>
    /\ inNextWd = 1
    /\ inWatches = <<>>
    /\ inKeys = <<>>
    /\ inPaths = <<>>
    /\ inRecursive = <<>>
    /\ inMask = <<>>
    /\ inRaw = <<>>
    /\ inQueue = <<>>
    /\ inAlive = TRUE
    /\ inRegCalls = <<>>
    /\ inInstalled = <<>>
    /\ inLast = NoCall
    /\ inKeyError = FALSE
    /\ inOps = 0

InIdle == InInit

\* The registry and the kernel's watch table after a method has run.
Store(r) ==
    /\ inWatches' = r.watches
    /\ inKeys' = r.keys
    /\ inPaths' = r.paths
    /\ inRecursive' = r.recursive
    /\ inMask' = r.mask
    /\ inKernel' = r.kernel
    /\ inNextWd' = r.nextWd
    /\ inRegCalls' = r.calls
    /\ inInstalled' = r.installed
    /\ inKeyError' = (inKeyError \/ r.raised)

\* A call of INotify.add by the program that uses the class.
Add(path, recursive, mask) ==
    /\ inOps < MaxOps
    /\ inOps' = inOps + 1
    /\ LET r == AddPath(Registry, inFs, path, recursive, mask) IN
        /\ Store(r)
        /\ inLast' = Call("program", "add", path, r)
    /\ UNCHANGED <<inFs, inRaw, inQueue, inAlive>>
    /\ UNCHANGED inOthers

\* A call of INotify.rm by the program that uses the class.
Rm(path) ==
    /\ inOps < MaxOps
    /\ inOps' = inOps + 1
    /\ LET r == RmPath(Registry, path) IN
        /\ Store(r)
        /\ inLast' = Call("program", "rm", path, r)
    /\ UNCHANGED <<inFs, inRaw, inQueue, inAlive>>
    /\ UNCHANGED inOthers

\* The kernel's watch on a directory, when its mask asks for CREATE and DELETE.
DirWatches(dir) == {w \in DOMAIN inKernel : inKernel[w].ino = dir /\ inKernel[w].mask = "dirs"}

\* The record the kernel queues for an entry of a watched directory.
Queued(kind, q) ==
    IF DirWatches(ParentDir(q)) = {} THEN inRaw
    ELSE Append(inRaw, [wd |-> CHOOSE w \in DirWatches(ParentDir(q)) : TRUE,
                        kind |-> kind, name |-> EntryName(q)])

\* Somebody creates a directory below /d.
Mkdir(q) ==
    /\ inOps < MaxOps
    /\ inOps' = inOps + 1
    /\ q \notin inFs
    /\ ParentDir(q) \in inFs
    /\ inFs' = inFs \cup {q}
    /\ inRaw' = Queued("CREATE", q)
    /\ UNCHANGED <<inKernel, inNextWd, inWatches, inKeys, inPaths, inRecursive, inMask,
                   inQueue, inAlive, inRegCalls, inInstalled, inLast, inKeyError>>
    /\ UNCHANGED inOthers

\* Somebody removes an empty directory below /d; the kernel drops its watch.
Rmdir(q) ==
    /\ inOps < MaxOps
    /\ inOps' = inOps + 1
    /\ q \in inFs
    /\ \A c \in inFs : ~Below(q, c)
    /\ inFs' = inFs \ {q}
    /\ inKernel' = [w \in {x \in DOMAIN inKernel : inKernel[x].ino # q} |-> inKernel[w]]
    /\ inRaw' = Queued("DELETE", q)
    /\ UNCHANGED <<inNextWd, inWatches, inKeys, inPaths, inRecursive, inMask,
                   inQueue, inAlive, inRegCalls, inInstalled, inLast, inKeyError>>
    /\ UNCHANGED inOthers

\* The kernel's event queue overflows: it queues a Q_OVERFLOW record, whose wd is
\* -1, and no second one while that one is unread.
Overflow ==
    /\ inOps < MaxOps
    /\ \A i \in DOMAIN inRaw : inRaw[i].kind # "Q_OVERFLOW"
    /\ inOps' = inOps + 1
    /\ inRaw' = Append(inRaw, [wd |-> 0 - 1, kind |-> "Q_OVERFLOW", name |-> <<>>])
    /\ UNCHANGED <<inFs, inKernel, inNextWd, inWatches, inKeys, inPaths, inRecursive, inMask,
                   inQueue, inAlive, inRegCalls, inInstalled, inLast, inKeyError>>
    /\ UNCHANGED inOthers

\* INotify.__procBuffer for one record (CREATE and DELETE records have ISDIR set).
ProcEvent ==
    /\ inAlive
    /\ inRaw # <<>>
    /\ inRaw' = Tail(inRaw)
    /\ LET e == Head(inRaw) IN
        IF e.wd \notin DOMAIN inPaths
        THEN UNCHANGED <<inKernel, inNextWd, inWatches, inKeys, inPaths, inRecursive, inMask,
                         inQueue, inAlive, inRegCalls, inInstalled, inLast, inKeyError>>
        ELSE LET path == Join(inPaths[e.wd], e.name) IN
             /\ inQueue' = Append(inQueue, [path |-> path, kind |-> e.kind])
             /\ IF e.kind = "CREATE"
                THEN IF inRecursive[e.wd]
                     THEN LET r == AddPath(Registry, inFs, path, TRUE, inMask[e.wd]) IN
                          Store(r) /\ inLast' = Call("event", "add", path, r) /\ inAlive' = inAlive
                     ELSE UNCHANGED <<inKernel, inNextWd, inWatches, inKeys, inPaths,
                                      inRecursive, inMask, inAlive, inRegCalls, inInstalled,
                                      inLast, inKeyError>>
                ELSE IF e.kind = "DELETE"
                     THEN LET r == RmPath(Registry, path) IN
                          Store(r) /\ inLast' = Call("event", "rm", path, r) /\ inAlive' = ~r.raised
                     ELSE UNCHANGED <<inKernel, inNextWd, inWatches, inKeys, inPaths,
                                      inRecursive, inMask, inAlive, inRegCalls, inInstalled,
                                      inLast, inKeyError>>
    /\ UNCHANGED <<inFs, inOps>>
    /\ UNCHANGED inOthers

-----------------------------------------------------------------------------
(* INotify.__procBuffer as a decoder of bytes: src/INotify.py *)

\* Bound: how many records a stream holds.
MaxRecords == 2

\* struct.calcsize("iIII")
HdrSize == 16

\* The largest value an integer of the model takes; an unsigned field beyond it
\* reads as this value, which no flag test and no slice bound tells apart here.
MaxInt == 2147483647

\* A 32-bit little-endian field as struct packs it ('i' and 'I').
Enc32(v) ==
    LET w == IF v < 0 THEN (v + MaxInt) + 1 ELSE v
    IN  <<w % 256, (w \div 256) % 256, (w \div 65536) % 256,
          ((w \div 16777216) % 256) + (IF v < 0 THEN 128 ELSE 0)>>

\* The low three bytes of a field.
Low24(b, off) == b[off + 1] + 256 * b[off + 2] + 65536 * b[off + 3]

\* struct.unpack of an 'i' field and of an 'I' field.
DecI32(b, off) ==
    Low24(b, off) + (IF b[off + 4] >= 128 THEN b[off + 4] - 256 ELSE b[off + 4]) * 16777216
DecU32(b, off) ==
    IF b[off + 4] >= 128 THEN MaxInt ELSE Low24(b, off) + b[off + 4] * 16777216

\* struct.unpack_from("iIII", buffer[0:hdrSize])
Unpack(buffer) ==
    [wd |-> DecI32(buffer, 0), mask |-> DecU32(buffer, 4),
     cookie |-> DecU32(buffer, 8), n |-> DecU32(buffer, 12)]

\* A slice bound beyond the end of the bytes is their end.
Clip(b, n) == IF n > Len(b) THEN Len(b) ELSE n

\* A Python slice b[i:j] of a bytearray, i <= j.
Slice(b, i, j) == SubSeq(b, Clip(b, i) + 1, Clip(b, j))

\* name[0:index] for index = name.find(b'\x00'), the whole name when there is none.
RECURSIVE UpToNul(_)
UpToNul(name) ==
    IF name = <<>> \/ Head(name) = 0 THEN <<>> ELSE <<Head(name)>> \o UpToNul(Tail(name))

\* The bytes of '/', 'a', 'b', 'c', 'd'.
Slash == 47
ChA == 97
ChB == 98
ChC == 99
ChD == 100

\* os.path.join on byte strings.
JoinBytes(path, name) ==
    IF path # <<>> /\ path[Len(path)] = Slash THEN path \o name ELSE path \o <<Slash>> \o name

\* self.__paths while the stream is decoded: wd 1 watches /d, wd 2 watches /d/a.
DcPaths == (1 :> <<Slash, ChD>>) @@ (2 :> <<Slash, ChD, Slash, ChA>>)

\* The event __procBuffer publishes for a header and the bytes behind it.
DecodedEvent(paths, h, buffer) ==
    LET name == UpToNul(Slice(buffer, HdrSize, HdrSize + Clip(buffer, h.n)))
    IN  [path |-> IF h.n > 0 THEN JoinBytes(paths[h.wd], name) ELSE paths[h.wd],
         flags |-> h.mask]

\* INotify.__procBuffer: the events put on the queue and the buffer returned.
RECURSIVE ProcBuffer(_, _, _)
ProcBuffer(buffer, paths, events) ==
    IF Len(buffer) < HdrSize THEN [events |-> events, rest |-> buffer]
    ELSE LET h == Unpack(buffer) IN
         ProcBuffer(Slice(buffer, HdrSize + Clip(buffer, h.n), Len(buffer)), paths,
                    IF h.wd \in DOMAIN paths
                    THEN Append(events, DecodedEvent(paths, h, buffer))
                    ELSE events)

\* A record as the kernel writes it: the header and the name, padded with NULs.
Rec(wd, mask, name) == Enc32(wd) \o Enc32(mask) \o Enc32(0) \o Enc32(Len(name)) \o name

\* CLOSE_WRITE of /d/ab, MODIFY of the watched /d/a itself, CREATE of the file /d/c.
DcRecords ==
    { Rec(1, 8, <<ChA, ChB, 0, 0>>),
      Rec(2, 2, <<>>),
      Rec(1, 256, <<ChC, 0, 0, 0>>) }

RECURSIVE DcStreams(_)
DcStreams(k) ==
    IF k = 0 THEN {<<>>}
    ELSE DcStreams(k - 1) \cup {s \o r : s \in DcStreams(k - 1), r \in DcRecords}

DcInit ==
    /\ dcStream \in DcStreams(MaxRecords)
    /\ dcSplit \in 0..Len(dcStream)
    /\ dcReads = 0
    /\ dcBuf = <<>>
    /\ dcPub = <<>>

DcIdle ==
    /\ dcStream = <<>> /\ dcSplit = 0 /\ dcReads = 0 /\ dcBuf = <<>> /\ dcPub = <<>>

\* One pass of run()'s loop: buffer = self.__procBuffer(buffer + fp.read(nAvail.value)).
DcRead(piece) ==
    LET r == ProcBuffer(dcBuf \o piece, DcPaths, <<>>) IN
    /\ dcBuf' = r.rest
    /\ dcPub' = dcPub \o r.events
    /\ dcReads' = dcReads + 1
    /\ UNCHANGED <<dcStream, dcSplit>>
    /\ UNCHANGED dcOthers

\* The first read returns the first dcSplit bytes, the second read the others.
DcReadFirst == dcReads = 0 /\ DcRead(SubSeq(dcStream, 1, dcSplit))
DcReadSecond == dcReads = 1 /\ DcRead(SubSeq(dcStream, dcSplit + 1, Len(dcStream)))

\* ------------------------------------------------------------------------
\* INotify.py run as a program (its __main__ block): the main thread starts
\* the INotify thread, adds each directory of args.dir recursively and then
\* consumes events, while the INotify thread reads records and, for a
\* directory created in a watched directory, adds it. Each thread's add is
\* followed statement by statement: add and rm take no lock.
\* Paths are sequences of components. The directories made while the program
\* runs are single ones, directly in a root (so the CREATE records all carry
\* ISDIR, and the walk of the add they cause finds nothing).

\* Bound: number of directories on the command line.
MaxArgs == 2

Roots == {<<"r1">>, <<"r2">>}
Kid(r) == Append(r, "k")

\* args.dir (nargs="+")
ArgLists == UNION {[1..n -> Roots] : n \in 1..MaxArgs}

SetToKids(r, fs) == IF Kid(r) \in fs THEN <<Kid(r)>> ELSE <<>>

MnInit ==
    /\ mnPc = "start" /\ mnArgs \in ArgLists /\ mnTodo = <<>> /\ mnPath = <<>> /\ mnWd = 0
    /\ ntPc = "new" /\ ntPath = <<>> /\ ntWd = 0
    /\ fsDirs = Roots /\ knWatches = <<>> /\ knNextWd = 1 /\ knRaw = <<>>
    /\ regWatches = <<>> /\ regPaths = <<>> /\ evQueue = <<>>

MnIdle ==
    /\ mnPc = "exited" /\ mnArgs = <<>> /\ mnTodo = <<>> /\ mnPath = <<>> /\ mnWd = 0
    /\ ntPc = "dead" /\ ntPath = <<>> /\ ntWd = 0
    /\ fsDirs = {} /\ knWatches = <<>> /\ knNextWd = 1 /\ knRaw = <<>>
    /\ regWatches = <<>> /\ regPaths = <<>> /\ evQueue = <<>>

\* inotify_add_watch on an existing directory: the descriptor it returns.
KernelWd(path) == IF path \in DOMAIN knWatches THEN knWatches[path] ELSE knNextWd

\* a.start()
MnStart ==
    /\ mnPc = "start"
    /\ mnPc' = "for" /\ ntPc' = "select"
    /\ UNCHANGED <<mnArgs, mnTodo, mnPath, mnWd, ntPath, ntWd, fsDirs, knWatches, knNextWd,
                   knRaw, regWatches, regPaths, evQueue>>
    /\ UNCHANGED mnOthers

\* `for item in dirs` inside add, then `for path in args.dir`; after the last
\* one the program goes on to its consumer loop.
MnFor ==
    /\ mnPc = "for"
    /\ IF mnTodo # <<>>
       THEN mnPath' = Head(mnTodo) /\ mnTodo' = Tail(mnTodo) /\ mnArgs' = mnArgs /\ mnPc' = "test"
       ELSE IF mnArgs # <<>>
       THEN mnPath' = Head(mnArgs) /\ mnArgs' = Tail(mnArgs) /\ mnTodo' = mnTodo /\ mnPc' = "test"
       ELSE mnPc' = "alive" /\ UNCHANGED <<mnPath, mnTodo, mnArgs>>
    /\ UNCHANGED <<mnWd, ntPc, ntPath, ntWd, fsDirs, knWatches, knNextWd, knRaw, regWatches,
                   regPaths, evQueue>>
    /\ UNCHANGED mnOthers

\* Where __addWatch returns to in the main thread: add goes on to os.walk after
\* the call for its own path, and to the next item after the call for an item.
MnAfter == IF Len(mnPath) = 1 THEN "walk" ELSE "for"

\* __addWatch: `if path in self.__watches: return`
MnTest ==
    /\ mnPc = "test"
    /\ mnPc' = IF mnPath \in DOMAIN regWatches THEN MnAfter ELSE "call"
    /\ UNCHANGED <<mnArgs, mnTodo, mnPath, mnWd, ntPc, ntPath, ntWd, fsDirs, knWatches,
                   knNextWd, knRaw, regWatches, regPaths, evQueue>>
    /\ UNCHANGED mnOthers

\* __addWatch: wd = self.__callLibC("inotify_add_watch", ...)
MnCall ==
    /\ mnPc = "call"
    /\ mnWd' = KernelWd(mnPath)
    /\ knWatches' = (mnPath :> KernelWd(mnPath)) @@ knWatches
    /\ knNextWd' = IF mnPath \in DOMAIN knWatches THEN knNextWd ELSE knNextWd + 1
    /\ mnPc' = "store"
    /\ UNCHANGED <<mnArgs, mnTodo, mnPath, ntPc, ntPath, ntWd, fsDirs, knRaw, regWatches,
                   regPaths, evQueue>>
    /\ UNCHANGED mnOthers

\* __addWatch: the assignments to self.__watches, self.__paths (and to
\* self.__recursive and self.__mask, which hold True and one mask here).
MnStore ==
    /\ mnPc = "store"
    /\ regWatches' = (mnPath :> mnWd) @@ regWatches
    /\ regPaths' = (mnWd :> mnPath) @@ regPaths
    /\ mnPc' = MnAfter
    /\ UNCHANGED <<mnArgs, mnTodo, mnPath, mnWd, ntPc, ntPath, ntWd, fsDirs, knWatches,
                   knNextWd, knRaw, evQueue>>
    /\ UNCHANGED mnOthers

\* add: os.walk(path)
MnWalk ==
    /\ mnPc = "walk"
    /\ mnTodo' = SetToKids(mnPath, fsDirs)
    /\ mnPc' = "for"
    /\ UNCHANGED <<mnArgs, mnPath, mnWd, ntPc, ntPath, ntWd, fsDirs, knWatches, knNextWd,
                   knRaw, regWatches, regPaths, evQueue>>
    /\ UNCHANGED mnOthers

\* `while a.is_alive():`
MnAlive ==
    /\ mnPc = "alive"
    /\ mnPc' = IF ntPc # "dead" THEN "get" ELSE "exited"
    /\ UNCHANGED <<mnArgs, mnTodo, mnPath, mnWd, ntPc, ntPath, ntWd, fsDirs, knWatches,
                   knNextWd, knRaw, regWatches, regPaths, evQueue>>
    /\ UNCHANGED mnOthers

\* `evt = a.get()`, which is self.__queue.get(timeout=None): it returns when
\* there is an event; then logger.info and a.task_done().
MnGet ==
    /\ mnPc = "get"
    /\ evQueue # <<>>
    /\ evQueue' = Tail(evQueue)
    /\ mnPc' = "alive"
    /\ UNCHANGED <<mnArgs, mnTodo, mnPath, mnWd, ntPc, ntPath, ntWd, fsDirs, knWatches,
                   knNextWd, knRaw, regWatches, regPaths>>
    /\ UNCHANGED mnOthers

\* run: select returns, the record is read, and __procBuffer publishes it when
\* its handle is in self.__paths; the watch being recursive, it goes on to
\* self.add(evt.path, ...).
NtSelect ==
    /\ ntPc = "select"
    /\ knRaw # <<>>
    /\ knRaw' = Tail(knRaw)
    /\ IF Head(knRaw).wd \in DOMAIN regPaths
       THEN /\ evQueue' = Append(evQueue, Append(regPaths[Head(knRaw).wd], Head(knRaw).name))
            /\ ntPath' = Append(regPaths[Head(knRaw).wd], Head(knRaw).name)
            /\ ntPc' = "test"
       ELSE UNCHANGED <<evQueue, ntPath, ntPc>>
    /\ UNCHANGED <<mnPc, mnArgs, mnTodo, mnPath, mnWd, ntWd, fsDirs, knWatches, knNextWd,
                   regWatches, regPaths>>
    /\ UNCHANGED mnOthers

\* __addWatch in the INotify thread: `if path in self.__watches: return`
NtTest ==
    /\ ntPc = "test"
    /\ ntPc' = IF ntPath \in DOMAIN regWatches THEN "select" ELSE "call"
    /\ UNCHANGED <<mnPc, mnArgs, mnTodo, mnPath, mnWd, ntPath, ntWd, fsDirs, knWatches,
                   knNextWd, knRaw, regWatches, regPaths, evQueue>>
    /\ UNCHANGED mnOthers

NtCall ==
    /\ ntPc = "call"
    /\ ntWd' = KernelWd(ntPath)
    /\ knWatches' = (ntPath :> KernelWd(ntPath)) @@ knWatches
    /\ knNextWd' = IF ntPath \in DOMAIN knWatches THEN knNextWd ELSE knNextWd + 1
    /\ ntPc' = "store"
    /\ UNCHANGED <<mnPc, mnArgs, mnTodo, mnPath, mnWd, ntPath, fsDirs, knRaw, regWatches,
                   regPaths, evQueue>>
    /\ UNCHANGED mnOthers

\* The assignments of __addWatch; the walk of add finds nothing below the new
\* directory, and the thread is back in select.
NtStore ==
    /\ ntPc = "store"
    /\ regWatches' = (ntPath :> ntWd) @@ regWatches
    /\ regPaths' = (ntWd :> ntPath) @@ regPaths
    /\ ntPc' = "select"
    /\ UNCHANGED <<mnPc, mnArgs, mnTodo, mnPath, mnWd, ntPath, ntWd, fsDirs, knWatches,
                   knNextWd, knRaw, evQueue>>
    /\ UNCHANGED mnOthers

\* run: select, ioctl or read raises (an I/O error on the descriptor); nothing
\* in run catches it, so the thread ends.
NtFail ==
    /\ ntPc = "select"
    /\ ntPc' = "dead"
    /\ UNCHANGED <<mnPc, mnArgs, mnTodo, mnPath, mnWd, ntPath, ntWd, fsDirs, knWatches,
                   knNextWd, knRaw, regWatches, regPaths, evQueue>>
    /\ UNCHANGED mnOthers

\* Somebody makes a directory in a root; the kernel queues a CREATE|ISDIR
\* record when the root is watched.
MkdirKid(r) ==
    /\ Kid(r) \notin fsDirs
    /\ fsDirs' = fsDirs \cup {Kid(r)}
    /\ knRaw' = IF r \in DOMAIN knWatches
                THEN Append(knRaw, [wd |-> knWatches[r], name |-> "k"])
                ELSE knRaw
    /\ UNCHANGED <<mnPc, mnArgs, mnTodo, mnPath, mnWd, ntPc, ntPath, ntWd, knWatches,
                   knNextWd, regWatches, regPaths, evQueue>>
    /\ UNCHANGED mnOthers

MainStep == MnStart \/ MnFor \/ MnTest \/ MnCall \/ MnStore \/ MnWalk \/ MnAlive \/ MnGet
NotifierStep == NtSelect \/ NtTest \/ NtCall \/ NtStore

\* ------------------------------------------------------------------------
\* Fault escalation in sync2SFMC, syncCache and syncGMC: MyBaseThread.run
\* around each worker's runMain, and the top level that waits on qExcept.

\* Bound: number of sources, each with a Monitor thread of its own.
MaxSrc == 2

Programs == {"sync2SFMC", "syncCache", "syncGMC"}
Monitors == {"Monitor1", "Monitor2", "Monitor3"}
MonitorsOf(n) == {"Monitor1"} \cup (IF n >= 2 THEN {"Monitor2"} ELSE {})
                              \cup (IF n >= 3 THEN {"Monitor3"} ELSE {})

\* Where runMain can raise: a Syncer (Doit) anywhere in its loop; a Monitor
\* before it has started inotifywait, or inside `with subprocess.Popen(...)`.
Places(w) == IF w = "Syncer" THEN {"loop"} ELSE {"before", "inside"}

FeInit ==
    /\ progName \in Programs
    /\ \E n \in 1..MaxSrc :
          workers = {"Syncer"} \cup (IF progName = "syncGMC" THEN MonitorsOf(1) ELSE MonitorsOf(n))
    /\ wkPc = [w \in workers |-> "runMain"]
    /\ wkChild = [w \in workers |-> "none"]
    /\ excQueue = <<>>
    /\ wkPuts = [w \in workers |-> 0]
    /\ topPc = "get" /\ topLogged = FALSE /\ exitStatus = 0 - 1

FeIdle ==
    /\ progName = "syncCache" /\ workers = {} /\ wkPc = <<>> /\ wkChild = <<>> /\ excQueue = <<>>
    /\ wkPuts = <<>> /\ topPc = "exited" /\ topLogged = FALSE /\ exitStatus = 0 - 1

\* runMain raises an Exception. Raised inside the with statement of a Monitor,
\* it first runs Popen.__exit__, which closes the pipe and waits for
\* inotifywait to terminate; otherwise it reaches the handler of run at once.
WkRaise(w, place) ==
    /\ topPc # "exited"
    /\ w \in workers /\ wkPc[w] = "runMain" /\ place \in Places(w)
    /\ wkPc' = [wkPc EXCEPT ![w] = IF place = "inside" THEN "wait" ELSE "except"]
    /\ wkChild' = [wkChild EXCEPT ![w] = IF place = "inside" THEN "running" ELSE "none"]
    /\ UNCHANGED <<progName, workers, excQueue, wkPuts, topPc, topLogged, exitStatus>>
    /\ UNCHANGED feOthers

\* A file changes below the source: inotifywait writes a line to the pipe that
\* has been closed and is terminated, so Popen.__exit__ returns.
InotifywaitEnds(w) ==
    /\ topPc # "exited"
    /\ w \in workers /\ wkPc[w] = "wait"
    /\ wkPc' = [wkPc EXCEPT ![w] = "except"]
    /\ wkChild' = [wkChild EXCEPT ![w] = "ended"]
    /\ UNCHANGED <<progName, workers, excQueue, wkPuts, topPc, topLogged, exitStatus>>
    /\ UNCHANGED feOthers

\* MyBaseThread.run: except Exception as e: logger.exception(...); q.put(e);
\* the thread ends.
WkExcept(w) ==
    /\ topPc # "exited"
    /\ w \in workers /\ wkPc[w] = "except"
    /\ excQueue' = Append(excQueue, w)
    /\ wkPuts' = [wkPuts EXCEPT ![w] = @ + 1]
    /\ wkPc' = [wkPc EXCEPT ![w] = "ended"]
    /\ UNCHANGED <<progName, workers, wkChild, topPc, topLogged, exitStatus>>
    /\ UNCHANGED feOthers

\* e = qExcept.get(); qExcept.task_done(); raise(e)
TopGet ==
    /\ topPc = "get"
    /\ excQueue # <<>>
    /\ excQueue' = Tail(excQueue)
    /\ topPc' = "log"
    /\ UNCHANGED <<progName, workers, wkPc, wkChild, wkPuts, topLogged, exitStatus>>
    /\ UNCHANGED feOthers

\* except Exception as e: logger.exception('Thread exception')
TopLog ==
    /\ topPc = "log"
    /\ topLogged' = TRUE
    /\ topPc' = "exit"
    /\ UNCHANGED <<progName, workers, wkPc, wkChild, excQueue, wkPuts, exitStatus>>
    /\ UNCHANGED feOthers

\* sys.exit(1): the workers are daemon threads and end with the process.
TopExit ==
    /\ topPc = "exit"
    /\ exitStatus' = 1
    /\ topPc' = "exited"
    /\ UNCHANGED <<progName, workers, wkPc, wkChild, excQueue, wkPuts, topLogged>>
    /\ UNCHANGED feOthers

WorkerStep == \E w \in Monitors \cup {"Syncer"} : WkExcept(w)
TopStep == TopGet \/ TopLog \/ TopExit

\* ------------------------------------------------------------------------
\* The function that mirrors one job: RSync.__doit, syncit of syncGMC,
\* Syncer.syncit of syncCache and Doit.syncit of sync2SFMC. Each builds the
\* command, logs it, and unless the dry-run option is set runs it.

\* Bound: jobs processed in one run.
MaxDryJobs == 3

DrPrograms == {"RSync", "syncGMC", "syncCache", "sync2SFMC"}

\* How subprocess.run can end: exit status 0, another exit status, or an
\* exception at launch (the rsync program cannot be executed).
DrOutcomes == {"ok", "nonzero", "raised"}

DryRunNever(dryrun) == FALSE

\* `if args.rsyncDryRun:` / `if args.dryrun:` / `if self.qDryrun:` the function
\* returns True there, before subprocess.run.
DryRunReturns(dryrun) == dryrun

\* What the function returns when subprocess.run has ended with `outcome`:
\* "True", "False", "None", or "raise" when the exception leaves the function.
\* syncit of syncGMC catches every exception and returns False; Syncer.syncit
\* of syncCache has no return statement after the subprocess.
RunResult(prog, outcome) ==
    IF outcome = "raised" THEN (IF prog = "syncGMC" THEN "False" ELSE "raise")
    ELSE IF prog = "syncCache" THEN "None"
    ELSE IF outcome = "ok" THEN "True" ELSE "False"

\* One call: the command is logged; then either the dry-run return, or the
\* subprocess and what follows from how it ended.
Doit(prog, dryrun, outcome) ==
    IF DryRunReturns(dryrun)
    THEN [cmdLogged |-> TRUE, subprocess |-> FALSE, result |-> "True"]
    ELSE [cmdLogged |-> TRUE, subprocess |-> TRUE, result |-> RunResult(prog, outcome)]

DrInit == drProg \in DrPrograms /\ drDryRun \in BOOLEAN /\ drLog = <<>>

DrIdle == drProg = "RSync" /\ drDryRun = FALSE /\ drLog = <<>>

\* A job is processed; `outcome` is how rsync would end were it run.
DrJob(outcome) ==
    /\ Len(drLog) < MaxDryJobs
    /\ drLog' = Append(drLog, Doit(drProg, drDryRun, outcome))
    /\ UNCHANGED <<drProg, drDryRun>>
    /\ UNCHANGED drOthers

\* ------------------------------------------------------------------------
\* A caller of RSync.join, next to the dispatcher above.

\* join: `if not self.is_alive(): return`, else self.__queue.join(). A thread
\* that has not been started is not alive.
RSJoinCall ==
    /\ rsJoin = "none"
    /\ rsJoin' = IF rsThread = "running" THEN "waiting" ELSE "returned"
    /\ rsJoinSeen' = Len(rsPutLog)
    /\ UNCHANGED <<rsVars, syVars, agVars, inVars, dcVars, mnVars, feVars, drVars, stVars, sbVars, exVars, wtVars, cmVars, hsVars>>

\* queue.Queue.join() returns when the count of unfinished tasks is zero.
RSJoinReturn ==
    /\ rsJoin = "waiting"
    /\ rsUnfinished = 0
    /\ rsJoin' = "returned"
    /\ UNCHANGED <<rsJoinSeen, rsVars, syVars, agVars, inVars, dcVars, mnVars, feVars, drVars, stVars, sbVars, exVars, wtVars, cmVars, hsVars>>

\* ------------------------------------------------------------------------
\* syncCache and syncGMC from thread start: the Monitor starts inotifywait,
\* does the initial sync unless --noInitial is given, then reads lines and
\* puts events; the Syncer takes them and runs rsync. The Syncer's watermark
\* test is a free choice here (the debounce loop is followed above).

\* Bounds: 'gliders' directories below gmcRoot, and lines inotifywait writes.
MaxGliders == 2
MaxLines == 2

NoInitial == [done |-> FALSE, watching |-> FALSE, read |-> 0]

StInit ==
    /\ stProg \in {"syncCache", "syncGMC"}
    /\ stInitial \in BOOLEAN
    /\ stMon = "start" /\ stWatching = FALSE
    /\ stTodo \in 0..MaxGliders
    /\ stPipe = 0 /\ stRead = 0 /\ stQueue = <<>> /\ stSyn = "get"
    /\ stActive = {} /\ stSyncs = 0 /\ stInitAt = NoInitial

StIdle ==
    /\ stProg = "syncCache" /\ stInitial = FALSE /\ stMon = "start" /\ stWatching = FALSE
    /\ stTodo = 0 /\ stPipe = 0 /\ stRead = 0 /\ stQueue = <<>> /\ stSyn = "get"
    /\ stActive = {} /\ stSyncs = 0 /\ stInitAt = NoInitial

AfterPopenLoop(initial) == "loop"

\* `if not args.noInitial:` right after the with statement has started inotifywait
AfterPopen(initial) == IF initial THEN "initial" ELSE "loop"

CanReadLineAlways(pc) == pc \in {"initial", "initsync", "loop"}

\* The Monitor reads a line only in its `while True:` loop, which it enters
\* after the initial sync has returned.
CanReadLine(pc) == pc = "loop"

\* with subprocess.Popen(cmd, stdout=subprocess.PIPE) as proc:
StPopen ==
    /\ stMon = "start"
    /\ stWatching' = TRUE
    /\ stMon' = AfterPopen(stInitial)
    /\ UNCHANGED <<stProg, stInitial, stTodo, stPipe, stRead, stQueue, stSyn, stActive,
                   stSyncs, stInitAt>>
    /\ UNCHANGED stOthers

\* syncCache: syncer.put((time.time(), rootDir))
StInitialPut ==
    /\ stProg = "syncCache" /\ stMon = "initial"
    /\ stQueue' = Append(stQueue, "rootDir")
    /\ stInitAt' = [done |-> TRUE, watching |-> stWatching, read |-> stRead]
    /\ stMon' = "loop"
    /\ UNCHANGED <<stProg, stInitial, stWatching, stTodo, stPipe, stRead, stSyn, stActive,
                   stSyncs>>
    /\ UNCHANGED stOthers

\* syncGMC initialSync: os.walk comes to the next 'gliders' directory and
\* syncit starts rsync for it, or has no more and initialSync returns.
StInitialWalk ==
    /\ stProg = "syncGMC" /\ stMon = "initial"
    /\ stInitAt' = IF stInitAt.done THEN stInitAt
                   ELSE [done |-> TRUE, watching |-> stWatching, read |-> stRead]
    /\ IF stTodo > 0
       THEN stMon' = "initsync" /\ stActive' = stActive \cup {"Monitor"}
       ELSE stMon' = "loop" /\ stActive' = stActive
    /\ UNCHANGED <<stProg, stInitial, stWatching, stTodo, stPipe, stRead, stQueue, stSyn,
                   stSyncs>>
    /\ UNCHANGED stOthers

\* syncit in the Monitor thread: subprocess.run returns.
StInitialDone ==
    /\ stMon = "initsync"
    /\ stActive' = stActive \ {"Monitor"}
    /\ stTodo' = stTodo - 1
    /\ stMon' = "initial"
    /\ UNCHANGED <<stProg, stInitial, stWatching, stPipe, stRead, stQueue, stSyn, stSyncs,
                   stInitAt>>
    /\ UNCHANGED stOthers

\* A file changes in the tree: inotifywait writes a line.
StEvent ==
    /\ stWatching
    /\ stPipe + stRead < MaxLines
    /\ stPipe' = stPipe + 1
    /\ UNCHANGED <<stProg, stInitial, stMon, stWatching, stTodo, stRead, stQueue, stSyn,
                   stActive, stSyncs, stInitAt>>
    /\ UNCHANGED stOthers

\* The Monitor reads a line and puts it on the Syncer's queue (syncGMC: when
\* it lies below a 'gliders' directory).
StRead(qualifies) ==
    /\ CanReadLine(stMon)
    /\ stPipe > 0
    /\ stProg = "syncCache" => qualifies
    /\ stPipe' = stPipe - 1
    /\ stRead' = stRead + 1
    /\ stQueue' = IF qualifies THEN Append(stQueue, "line") ELSE stQueue
    /\ UNCHANGED <<stProg, stInitial, stMon, stWatching, stTodo, stSyn, stActive, stSyncs,
                   stInitAt>>
    /\ UNCHANGED stOthers

\* Syncer.runMain: q.get(), then the watermark test: `continue`, or go on to
\* the sleep. There is no watermark before the first pass.
SnGet(quick) ==
    /\ stSyn = "get"
    /\ stQueue # <<>>
    /\ quick => stSyncs > 0
    /\ stQueue' = Tail(stQueue)
    /\ stSyn' = IF quick THEN "get" ELSE "sleep"
    /\ UNCHANGED <<stProg, stInitial, stMon, stWatching, stTodo, stPipe, stRead, stActive,
                   stSyncs, stInitAt>>
    /\ UNCHANGED stOthers

\* The sleep ends and syncit starts rsync.
SnStart ==
    /\ stSyn = "sleep"
    /\ stSyn' = "sync"
    /\ stActive' = stActive \cup {"Syncer"}
    /\ stSyncs' = stSyncs + 1
    /\ UNCHANGED <<stProg, stInitial, stMon, stWatching, stTodo, stPipe, stRead, stQueue,
                   stInitAt>>
    /\ UNCHANGED stOthers

\* syncit in the Syncer thread: subprocess.run returns.
SnDone ==
    /\ stSyn = "sync"
    /\ stSyn' = "get"
    /\ stActive' = stActive \ {"Syncer"}
    /\ UNCHANGED <<stProg, stInitial, stMon, stWatching, stTodo, stPipe, stRead, stQueue,
                   stSyncs, stInitAt>>
    /\ UNCHANGED stOthers

\* ------------------------------------------------------------------------
\* RSync.put and the collection the submitter passes: put enqueues the object
\* it is given, and __doit reads it when the job is dispatched.

\* The collections a submitter can pass: a tuple, as the annotation asks, or
\* a list, as args.src is in the __main__ block.
Kinds == {"tuple", "list"}
Items == {"s1", "s2"}

SbInit == sbHeap = <<>> /\ sbQueue = <<>> /\ sbPutLog = <<>> /\ sbCmd = <<>>

SbIdle == SbInit

\* The submitter makes a collection and calls put: self.__queue.put(sources)
SbPut(kind, items) ==
    /\ Len(sbHeap) < MaxJobs
    /\ sbHeap' = Append(sbHeap, [kind |-> kind, items |-> items])
    /\ sbQueue' = Append(sbQueue, Len(sbHeap) + 1)
    /\ sbPutLog' = Append(sbPutLog, items)
    /\ UNCHANGED sbCmd
    /\ UNCHANGED sbOthers

\* The submitter appends a path to a list it has put (it reuses the list for
\* its next job); a tuple cannot be changed.
SbMutate(obj, item) ==
    /\ obj \in DOMAIN sbHeap
    /\ sbHeap[obj].kind = "list"
    /\ Len(sbHeap[obj].items) < 2
    /\ sbHeap' = [sbHeap EXCEPT ![obj].items = Append(@, item)]
    /\ UNCHANGED <<sbQueue, sbPutLog, sbCmd>>
    /\ UNCHANGED sbOthers

\* run: sources = queue.get(); __doit: cmd.extend(list(sources))
SbDispatch ==
    /\ sbQueue # <<>>
    /\ sbQueue' = Tail(sbQueue)
    /\ sbCmd' = (Head(sbQueue) :> sbHeap[Head(sbQueue)].items) @@ sbCmd
    /\ UNCHANGED <<sbHeap, sbPutLog>>
    /\ UNCHANGED sbOthers

\* ------------------------------------------------------------------------
\* syncGMC and its exclude patterns: inotifywait is started with one
\* --exclude option per pattern, syncit gives rsync one --exclude option per
\* pattern, and initialSync walks the tree for 'gliders' directories. A path
\* is the sequence of its names below gmcRoot. The Syncer's watermark test
\* is a free choice here (the debounce loop is followed above). The fields of
\* a queued item are those of the tuple, and `file`, the path that changed,
\* which is a record of the cause and not part of the tuple.

\* Bound: changes of files in the tree.
MaxChanges == 2

\* A directory MaxTgt levels below 'gliders'.
ExDeep == <<"gliders">> \o [i \in 1..MaxTgt |-> "d"]

\* The directories below gmcRoot that are followed, in the order os.walk
\* comes to them.
ExOrder ==
    << <<"gliders">>, <<"gliders", "g1">>, <<"gliders", "g1", "old">>,
       <<"old">>, <<"old", "gliders">>, ExDeep >>
ExTrees ==
    { {ExOrder[1], ExOrder[2], ExOrder[3]},
      {ExOrder[1], ExOrder[2], ExOrder[3], ExOrder[4], ExOrder[5]},
      {ExOrder[1], ExOrder[2], ExOrder[4], ExDeep} }
ExFiles == {"f", "old"}
ExPatterns == { {"old"}, {"g1"}, {"old", "g1"} }

\* A pattern is searched for in the whole path.
Matches(pattern, path) == \E i \in 1..Len(path) : path[i] = pattern
Excluded(excl, path) == \E p \in excl : Matches(p, path)

\* MonitorGMC.runMain: the names are taken from the end of the line until one
\* of them is 'gliders'; the prefix is what follows that name.
FoundGliders(line) == GlidersWalk(line, <<>>).found
Prefix(line) == GlidersPrefix(GlidersWalk(line, <<>>).tgt)

\* syncit: the command line, with what brought it about.
Cmd(src, by, file) == [excludes |-> exExclude, src |-> src, by |-> by, file |-> file]

ExInit ==
    /\ exDirs \in ExTrees /\ exExclude \in ExPatterns /\ exInitial \in BOOLEAN
    /\ exMon = "start" /\ exWalk = <<>> /\ exPipe = <<>> /\ exEvents = 0
    /\ exQueue = <<>> /\ exPrev = {} /\ exCmds = <<>> /\ exNow = 0 /\ exReads = <<>>

ExIdle ==
    /\ exDirs = {ExOrder[1]} /\ exExclude = {"old"} /\ exInitial = FALSE
    /\ exMon = "start" /\ exWalk = <<>> /\ exPipe = <<>> /\ exEvents = 0
    /\ exQueue = <<>> /\ exPrev = {} /\ exCmds = <<>> /\ exNow = 0 /\ exReads = <<>>

\* time.time() moves on.
ExTick ==
    /\ exNow < MaxTime
    /\ exNow' = exNow + 1
    /\ UNCHANGED <<exDirs, exExclude, exInitial, exMon, exWalk, exPipe, exEvents, exQueue,
                   exPrev, exCmds, exReads>>
    /\ UNCHANGED exOthers

\* with subprocess.Popen(cmd, stdout=subprocess.PIPE) as proc:
ExPopen ==
    /\ exMon = "start"
    /\ exMon' = AfterPopen(exInitial)
    /\ exWalk' = SelectSeq(ExOrder, LAMBDA d : d \in exDirs)
    /\ UNCHANGED <<exDirs, exExclude, exInitial, exPipe, exEvents, exQueue, exPrev, exCmds, exNow, exReads>>
    /\ UNCHANGED exOthers

\* initialSync: os.walk comes to the next directory and calls syncit when its
\* name is 'gliders', or has no more and initialSync returns.
ExInitialSync ==
    /\ exMon = "initial"
    /\ IF exWalk = <<>>
       THEN exMon' = "loop" /\ UNCHANGED <<exWalk, exCmds>>
       ELSE /\ exWalk' = Tail(exWalk)
            /\ exMon' = exMon
            /\ exCmds' = IF Head(exWalk)[Len(Head(exWalk))] = "gliders"
                         THEN Append(exCmds, Cmd(Head(exWalk), "initial", Head(exWalk)))
                         ELSE exCmds
    /\ UNCHANGED <<exDirs, exExclude, exInitial, exPipe, exEvents, exQueue, exPrev, exNow, exReads>>
    /\ UNCHANGED exOthers

\* A file in a directory changes: inotifywait writes the directory (%w) unless
\* the file's name matches one of its --exclude patterns.
ExEvent(dir, file) ==
    /\ exMon # "start"
    /\ exEvents < MaxChanges
    /\ exEvents' = exEvents + 1
    /\ exPipe' = IF Excluded(exExclude, Append(dir, file)) THEN exPipe
                 ELSE Append(exPipe, [line |-> dir, file |-> Append(dir, file)])
    /\ UNCHANGED <<exDirs, exExclude, exInitial, exMon, exWalk, exQueue, exPrev, exCmds, exNow, exReads>>
    /\ UNCHANGED exOthers

\* The Monitor reads a line and puts it on the Syncer's queue when a
\* 'gliders' directory is on it.
ExRead ==
    /\ exMon = "loop"
    /\ exPipe # <<>>
    /\ exPipe' = Tail(exPipe)
    /\ exReads' = Append(exReads, Head(exPipe).line)
    /\ exQueue' = IF FoundGliders(Head(exPipe).line)
                  THEN Append(exQueue, [t |-> exNow, src |-> Head(exPipe).line,
                                        prefix |-> Prefix(Head(exPipe).line),
                                        qDelay |-> TRUE,
                                        file |-> Head(exPipe).file])
                  ELSE exQueue
    /\ UNCHANGED <<exDirs, exExclude, exInitial, exMon, exWalk, exEvents, exPrev, exCmds, exNow>>
    /\ UNCHANGED exOthers

\* Syncer.runMain: q.get() and `continue` for a quick update.
ExSyncerSkip ==
    /\ exQueue # <<>>
    /\ Head(exQueue).prefix \in exPrev
    /\ exQueue' = Tail(exQueue)
    /\ UNCHANGED <<exDirs, exExclude, exInitial, exMon, exWalk, exPipe, exEvents, exPrev,
                   exCmds, exNow, exReads>>
    /\ UNCHANGED exOthers

\* Syncer.runMain: q.get(), the sleep, prevTime[prefix] = time.time(), syncit.
ExSyncerSync ==
    /\ exQueue # <<>>
    /\ exQueue' = Tail(exQueue)
    /\ exPrev' = exPrev \cup {Head(exQueue).prefix}
    /\ exCmds' = Append(exCmds, Cmd(Head(exQueue).src, "event", Head(exQueue).file))
    /\ UNCHANGED <<exDirs, exExclude, exInitial, exMon, exWalk, exPipe, exEvents, exNow, exReads>>
    /\ UNCHANGED exOthers

\* ------------------------------------------------------------------------
\* The Monitor's read loop in syncGMC, syncCache, sync2SFMC and probar, and
\* what it does when inotifywait ends: proc.stdout is a binary pipe, so
\* readline returns a bytes object, b'' at end of file.

WtProgs == {"syncGMC", "syncCache", "sync2SFMC", "probar"}

\* Python values: a bytes object and a str with the same characters are
\* different values, and == between them is False.
Bytes(chars) == [kind |-> "bytes", chars |-> chars]
Str(chars) == [kind |-> "str", chars |-> chars]
NoValue == [kind |-> "none", chars |-> <<>>]
PyEq(a, b) == a.kind = b.kind /\ a.chars = b.chars
Falsy(a) == a.chars = <<>>

\* `if line == '' and proc.poll() is not None:`
RaiseTest(line, child) == PyEq(line, Str(<<>>)) /\ child = "exited"

WtInit ==
    /\ wtProg \in WtProgs
    /\ wtPc = "start" /\ wtChild = "none" /\ wtPipe = 0 /\ wtWritten = 0
    /\ wtLine = NoValue /\ wtHandled = 0 /\ wtExc = <<>> /\ wtTop = "get"
    /\ wtStatus = 0 - 1

WtIdle ==
    /\ wtProg = "syncCache"
    /\ wtPc = "start" /\ wtChild = "none" /\ wtPipe = 0 /\ wtWritten = 0
    /\ wtLine = NoValue /\ wtHandled = 0 /\ wtExc = <<>> /\ wtTop = "exited"
    /\ wtStatus = 0 - 1

\* with subprocess.Popen(cmd, stdout=subprocess.PIPE) as proc: inotifywait is
\* started, or cannot be executed and Popen raises.
WtPopen(ok) ==
    /\ wtTop # "exited" /\ wtPc = "start"
    /\ wtPc' = IF ok THEN "readline" ELSE "raised"
    /\ wtChild' = IF ok THEN "running" ELSE "none"
    /\ UNCHANGED <<wtProg, wtPipe, wtWritten, wtLine, wtHandled, wtExc, wtTop, wtStatus>>
    /\ UNCHANGED wtOthers

\* A file changes: inotifywait writes a line.
WtWrite ==
    /\ wtTop # "exited" /\ wtChild = "running"
    /\ wtWritten < MaxLines
    /\ wtWritten' = wtWritten + 1
    /\ wtPipe' = wtPipe + 1
    /\ UNCHANGED <<wtProg, wtPc, wtChild, wtLine, wtHandled, wtExc, wtTop, wtStatus>>
    /\ UNCHANGED wtOthers

\* inotifywait exits (it is killed, or its watch limit is used up).
WtChildExit ==
    /\ wtTop # "exited" /\ wtChild = "running"
    /\ wtChild' = "exited"
    /\ UNCHANGED <<wtProg, wtPc, wtPipe, wtWritten, wtLine, wtHandled, wtExc, wtTop, wtStatus>>
    /\ UNCHANGED wtOthers

\* line = proc.stdout.readline(): the next line, or b'' at end of file; it
\* blocks while the pipe is empty and inotifywait runs.
WtReadline ==
    /\ wtTop # "exited" /\ wtPc = "readline"
    /\ wtPipe > 0 \/ wtChild = "exited"
    /\ wtLine' = IF wtPipe > 0 THEN Bytes(<<"l">>) ELSE Bytes(<<>>)
    /\ wtPipe' = IF wtPipe > 0 THEN wtPipe - 1 ELSE 0
    /\ wtPc' = "test"
    /\ UNCHANGED <<wtProg, wtChild, wtWritten, wtHandled, wtExc, wtTop, wtStatus>>
    /\ UNCHANGED wtOthers

\* The two tests on the line: raise, `continue`, or go on to handle the line
\* and come back to readline.
WtTest ==
    /\ wtTop # "exited" /\ wtPc = "test"
    /\ wtPc' = IF RaiseTest(wtLine, wtChild) THEN "raised" ELSE "readline"
    /\ wtHandled' = IF ~RaiseTest(wtLine, wtChild) /\ ~Falsy(wtLine)
                    THEN wtHandled + 1 ELSE wtHandled
    /\ UNCHANGED <<wtProg, wtChild, wtPipe, wtWritten, wtLine, wtExc, wtTop, wtStatus>>
    /\ UNCHANGED wtOthers

\* MyBaseThread.run: except Exception as e: logger.exception(...); q.put(e)
WtExcept ==
    /\ wtTop # "exited" /\ wtPc = "raised"
    /\ wtExc' = Append(wtExc, "Monitor")
    /\ wtPc' = "ended"
    /\ UNCHANGED <<wtProg, wtChild, wtPipe, wtWritten, wtLine, wtHandled, wtTop, wtStatus>>
    /\ UNCHANGED wtOthers

\* e = qExcept.get(); raise(e); logger.exception(...); sys.exit(1)
WtTopExit ==
    /\ wtTop = "get" /\ wtExc # <<>>
    /\ wtExc' = Tail(wtExc)
    /\ wtTop' = "exited"
    /\ wtStatus' = 1
    /\ UNCHANGED <<wtProg, wtPc, wtChild, wtPipe, wtWritten, wtLine, wtHandled>>
    /\ UNCHANGED wtOthers

\* ------------------------------------------------------------------------
\* RSync.__doit: the command line built for a job.

\* Bound: jobs given to __doit.
MaxCmds == 2

\* argparse leaves an option that was not given as None.
None == "None"
CmOpts == {None, <<"-v">>}
CmExcludes == {None, <<"p1">>, <<"p1", "p2">>, <<"p2", "p2">>}
\* A source may be named like an exclude pattern.
CmPaths == {"s1", "p1"}
CmSources == {<<>>} \cup {<<a>> : a \in CmPaths} \cup {<<a, b>> : a, b \in CmPaths}

\* `if x is not None: cmd.extend(...)`: the items of an option, none when it is None
Given(x) == IF x = None THEN <<>> ELSE x

RECURSIVE ExcludeArgs(_)
ExcludeArgs(items) ==
    IF items = <<>> THEN <<>>
    ELSE <<"--exclude", Head(items)>> \o ExcludeArgs(Tail(items))

Fixed(args) ==
    <<args.rsyncCmd, "--archive", "--delete-delay", "--delete-excluded",
      "--delete-missing-args", "--delay-updates", "--chmod", args.rsyncchmod>>

\* A mutant of the command line: the target comes before the sources.
DoitCmdTargetFirst(args, sources) ==
    Fixed(args) \o Given(args.rsyncOpt) \o ExcludeArgs(Given(args.rsyncExclude))
        \o <<args.rsyncTarget>> \o sources

\* cmd = [...]; cmd.extend(args.rsyncOpt); cmd.append("--exclude"),
\* cmd.append(item) for each item; cmd.extend(list(sources)); cmd.append(target)
DoitCmd(args, sources) ==
    Fixed(args) \o Given(args.rsyncOpt) \o ExcludeArgs(Given(args.rsyncExclude))
        \o sources \o <<args.rsyncTarget>>

CmInit ==
    /\ cmArgs \in [rsyncCmd : {"rsync"}, rsyncchmod : {"Do+rx,Fo+r"}, rsyncOpt : CmOpts,
                   rsyncExclude : CmExcludes, rsyncTarget : {"T"}]
    /\ cmLog = <<>>

CmIdle ==
    /\ cmArgs = [rsyncCmd |-> "rsync", rsyncchmod |-> "Do+rx,Fo+r", rsyncOpt |-> None,
                 rsyncExclude |-> None, rsyncTarget |-> "T"]
    /\ cmLog = <<>>

\* __doit(sources) as far as logger.info("cmd %s", cmd)
CmDoit(sources) ==
    /\ Len(cmLog) < MaxCmds
    /\ cmLog' = Append(cmLog, [sources |-> sources, cmd |-> DoitCmd(cmArgs, sources)])
    /\ UNCHANGED cmArgs
    /\ UNCHANGED cmOthers

\* ------------------------------------------------------------------------
\* probar: the Historical thread of one glider. A file's stem (its name
\* without the suffix) is given by its rank in the order of the strings, so
\* sorted() puts smaller numbers first.

\* Bounds: different stems among the historical files, and triggers put.
MaxGroups == 2
MaxTriggers == 2

HsKeys == 1..MaxGroups
\* os.walk finds up to MaxGroups files, in any order, several with one stem.
HsWalks == UNION {[1..n -> HsKeys] : n \in 0..MaxGroups}

\* for key in sorted(a): self.files.append(a[key])
RECURSIVE SortedKeys(_)
SortedKeys(keys) ==
    IF keys = {} THEN <<>>
    ELSE LET least == CHOOSE k \in keys : \A x \in keys : k <= x
         IN  <<least>> \o SortedKeys(keys \ {least})

\* __initialize__: a[seq] lists the files of stem seq in the order found
\* (each file is given by its place in the walk).
Groups(walk) ==
    LET keys == SortedKeys({walk[i] : i \in DOMAIN walk})
    IN  [g \in DOMAIN keys |->
            [key |-> keys[g], files |-> SelectSeq([i \in DOMAIN walk |-> i],
                                                  LAMBDA i : walk[i] = keys[g])]]

\* A mutant of the test on the trigger's time.
HsOldStrict(t, last) == t < last

\* `if t <= lastTime: continue`
HsOld(t, last) == t <= last

HsInit ==
    /\ hsWalk \in HsWalks
    /\ hsPc = "init" /\ hsFiles = <<>> /\ hsIndex = 0 /\ hsNow = 1
    /\ hsQueue = <<>> /\ hsLast = 0 /\ hsCopied = <<>> /\ hsCycleEnd = 0 - 1
    /\ hsPuts = 0

HsIdle ==
    /\ hsWalk = <<>>
    /\ hsPc = "dead" /\ hsFiles = <<>> /\ hsIndex = 0 /\ hsNow = 1
    /\ hsQueue = <<>> /\ hsLast = 0 /\ hsCopied = <<>> /\ hsCycleEnd = 0 - 1
    /\ hsPuts = 0

\* time.time() moves on (it is past 0 when the program starts).
HsTick ==
    /\ hsNow < MaxTime
    /\ hsNow' = hsNow + 1
    /\ UNCHANGED <<hsWalk, hsPc, hsFiles, hsIndex, hsQueue, hsLast, hsCopied, hsCycleEnd,
                   hsPuts>>
    /\ UNCHANGED hsOthers

\* Monitor.runMain: self.doit.put((time.time(), self.gld))
HsPut ==
    /\ hsPuts < MaxTriggers
    /\ hsPuts' = hsPuts + 1
    /\ hsQueue' = Append(hsQueue, hsNow)
    /\ UNCHANGED <<hsWalk, hsPc, hsFiles, hsIndex, hsNow, hsLast, hsCopied, hsCycleEnd>>
    /\ UNCHANGED hsOthers

\* runMain: self.__initialize__(); self.__initDirs__()
HsInitialize ==
    /\ hsPc = "init"
    /\ hsFiles' = Groups(hsWalk)
    /\ hsIndex' = 0
    /\ hsPc' = "first"
    /\ UNCHANGED <<hsWalk, hsNow, hsQueue, hsLast, hsCopied, hsCycleEnd, hsPuts>>
    /\ UNCHANGED hsOthers

\* __copyNext__, called before the loop and for a trigger: the next group is
\* copied and the index goes up, or a copyfile raises and the thread ends, or
\* there is no next group.
HsCopyNext(copied) ==
    /\ hsPc \in {"first", "copy"}
    /\ IF hsIndex < Len(hsFiles)
       THEN IF copied
            THEN /\ hsCopied' = Append(hsCopied, hsFiles[hsIndex + 1].key)
                 /\ hsIndex' = hsIndex + 1
                 /\ hsPc' = IF hsPc = "first" THEN "get" ELSE "dive"
            ELSE /\ hsPc' = "dead"
                 /\ UNCHANGED <<hsCopied, hsIndex>>
       ELSE /\ hsPc' = IF hsPc = "first" THEN "get" ELSE "dive"
            /\ UNCHANGED <<hsCopied, hsIndex>>
    /\ UNCHANGED <<hsWalk, hsFiles, hsNow, hsQueue, hsLast, hsCycleEnd, hsPuts>>
    /\ UNCHANGED hsOthers

\* self.__delay__(delayDive, ...); lastTime = time.time()
HsDive ==
    /\ hsPc = "dive"
    /\ hsLast' = hsNow
    /\ hsCycleEnd' = hsNow
    /\ hsPc' = "get"
    /\ UNCHANGED <<hsWalk, hsFiles, hsIndex, hsNow, hsQueue, hsCopied, hsPuts>>
    /\ UNCHANGED hsOthers

\* (t, gld) = q.get(); q.task_done(); if t <= lastTime: continue
HsGet ==
    /\ hsPc = "get"
    /\ hsQueue # <<>>
    /\ hsQueue' = Tail(hsQueue)
    /\ hsPc' = IF HsOld(Head(hsQueue), hsLast) THEN "get" ELSE "copy"
    /\ UNCHANGED <<hsWalk, hsFiles, hsIndex, hsNow, hsLast, hsCopied, hsCycleEnd, hsPuts>>
    /\ UNCHANGED hsOthers
NextRSync ==
    \/ RSStart
    \/ \E src \in JobSources : RSPut(src)
    \/ RSGet
    \/ \E o \in RunOutcomes : RSFinish(o)

InitRSync == RSInit /\ SyIdle /\ AgIdle /\ InIdle /\ DcIdle /\ MnIdle /\ FeIdle /\ DrIdle /\ StIdle /\ SbIdle /\ ExIdle /\ WtIdle /\ CmIdle /\ HsIdle

SpecRSync == InitRSync /\ [][NextRSync]_vars

\* The worker thread is scheduled and every rsync subprocess terminates.
LiveRSync ==
    /\ InitRSync /\ [][NextRSync]_vars
    /\ WF_vars(RSStart) /\ WF_vars(RSGet) /\ WF_vars(\E o \in RunOutcomes : RSFinish(o))


\* ---- the dispatcher with a caller that joins it
NextJoin == NextRSync \/ RSJoinCall \/ RSJoinReturn
SpecJoin == InitRSync /\ [][NextJoin]_vars

\* ---- put and the submitter's collection
NextSubmit ==
    \/ \E kind \in Kinds : \E item \in Items : SbPut(kind, <<item>>)
    \/ \E obj \in 1..MaxJobs : \E item \in Items : SbMutate(obj, item)
    \/ SbDispatch
InitSubmit ==
    RSInitIdle /\ SyIdle /\ AgIdle /\ InIdle /\ DcIdle /\ MnIdle /\ FeIdle /\ DrIdle /\ StIdle /\ SbInit /\ ExIdle /\ WtIdle /\ CmIdle /\ HsIdle
SpecSubmit == InitSubmit /\ [][NextSubmit]_vars

NextSync ==
    \/ Tick
    \/ \E line \in CacheLines : CacheMonitor(line)
    \/ CacheSyncerGet
    \/ CacheSyncerWake
    \/ \E o \in RunOutcomes : CacheSyncDone(o)
    \/ \E line \in GMCLines : GMCMonitor(line)
    \/ GMCSyncerGet
    \/ GMCSyncerWake
    \/ \E o \in RunOutcomes : GMCSyncDone(o)
    \/ \E line \in SFMCLines : SFMCMonitor(line)
    \/ SFMCDoitGet
    \/ \E f \in FileStates : SFMCDoitWake(f)
    \/ \E o \in RunOutcomes : SFMCSyncDone(o)
    \/ MainExit

InitSync == RSInitIdle /\ SyInit(FALSE, Variants) /\ AgIdle /\ InIdle /\ DcIdle /\ MnIdle /\ FeIdle /\ DrIdle /\ StIdle /\ SbIdle /\ ExIdle /\ WtIdle /\ CmIdle /\ HsIdle

\* The three sync programs, in runs of at most MaxEvents lines and MaxTime ticks.
SpecSync == InitSync /\ [][NextSync]_vars

\* The path whose events keep arriving in an unbounded run.
LiveLine == IF variant = "syncCache" THEN <<"c", "st1">> ELSE <<"r", "A", "gliders", "g1">>

\* A mirror invocation that terminates returns an exit status.
ExitOutcomes == {"ok", "nonzero"}

LivePut == CacheMonitor(LiveLine) \/ GMCMonitor(LiveLine)

LiveSyncerStep ==
    \/ CacheSyncerGet
    \/ CacheSyncerWake
    \/ \E o \in ExitOutcomes : CacheSyncDone(o)
    \/ GMCSyncerGet
    \/ GMCSyncerWake
    \/ \E o \in ExitOutcomes : GMCSyncDone(o)

NextSyncLive == Tick \/ LivePut \/ LiveSyncerStep

InitSyncLive == RSInitIdle /\ SyInit(TRUE, {"syncCache", "syncGMC"}) /\ AgIdle /\ InIdle /\ DcIdle /\ MnIdle /\ FeIdle /\ DrIdle /\ StIdle /\ SbIdle /\ ExIdle /\ WtIdle /\ CmIdle /\ HsIdle

\* syncCache and syncGMC with one path whose events never stop arriving: the
\* Syncer thread is scheduled and every mirror invocation terminates.
LiveSync == InitSyncLive /\ [][NextSyncLive]_vars /\ WF_vars(LiveSyncerStep)

NextAgg ==
    \/ AgTick
    \/ \E e \in AgEvents : AgReceive(e)
    \/ AgFlush

InitAgg == RSInitIdle /\ SyIdle /\ AgInit /\ InIdle /\ DcIdle /\ MnIdle /\ FeIdle /\ DrIdle /\ StIdle /\ SbIdle /\ ExIdle /\ WtIdle /\ CmIdle /\ HsIdle

\* The aggregator, in runs of at most MaxFlush Sync Jobs and MaxTime ticks.
SpecAgg == InitAgg /\ [][NextAgg]_vars

NextINotify ==
    \/ \E path \in CallPaths, recursive \in BOOLEAN, mask \in Masks : Add(path, recursive, mask)
    \/ \E path \in CallPaths : Rm(path)
    \/ \E q \in SeqToSet(WalkOrder) : Mkdir(q)
    \/ \E q \in SeqToSet(WalkOrder) : Rmdir(q)
    \/ Overflow
    \/ ProcEvent

InitINotify == RSInitIdle /\ SyIdle /\ AgIdle /\ InInit /\ DcIdle /\ MnIdle /\ FeIdle /\ DrIdle /\ StIdle /\ SbIdle /\ ExIdle /\ WtIdle /\ CmIdle /\ HsIdle

\* The watch registry, in runs of at most MaxOps calls and directory changes.
SpecINotify == InitINotify /\ [][NextINotify]_vars

NextDecode == DcReadFirst \/ DcReadSecond

InitDecode == RSInitIdle /\ SyIdle /\ AgIdle /\ InIdle /\ DcInit /\ MnIdle /\ FeIdle /\ DrIdle /\ StIdle /\ SbIdle /\ ExIdle /\ WtIdle /\ CmIdle /\ HsIdle

\* The decoder fed a stream of at most MaxRecords records in two reads.
SpecDecode == InitDecode /\ [][NextDecode]_vars

\* ---- INotify.py as a program
NextMain ==
    \/ MnStart \/ MnFor \/ MnTest \/ MnCall \/ MnStore \/ MnWalk \/ MnAlive \/ MnGet
    \/ NtSelect \/ NtTest \/ NtCall \/ NtStore \/ NtFail
    \/ \E r \in Roots : MkdirKid(r)
InitMain == RSInitIdle /\ SyIdle /\ AgIdle /\ InIdle /\ DcIdle /\ MnInit /\ FeIdle /\ DrIdle /\ StIdle /\ SbIdle /\ ExIdle /\ WtIdle /\ CmIdle /\ HsIdle
SpecMain == InitMain /\ [][NextMain]_vars

\* The two threads are scheduled by the operating system: each one takes its
\* next step when it has one. Failures and directory changes need not happen.
LiveMain == SpecMain /\ WF_vars(MainStep) /\ WF_vars(NotifierStep)

\* ---- fault escalation
NextFault ==
    \/ \E w \in Monitors \cup {"Syncer"} : \E place \in {"loop", "before", "inside"} : WkRaise(w, place)
    \/ \E w \in Monitors : InotifywaitEnds(w)
    \/ \E w \in Monitors \cup {"Syncer"} : WkExcept(w)
    \/ TopGet \/ TopLog \/ TopExit
InitFault == RSInitIdle /\ SyIdle /\ AgIdle /\ InIdle /\ DcIdle /\ MnIdle /\ FeInit /\ DrIdle /\ StIdle /\ SbIdle /\ ExIdle /\ WtIdle /\ CmIdle /\ HsIdle
SpecFault == InitFault /\ [][NextFault]_vars

\* Threads that can take a step take it; nothing obliges a file to change.
LiveFault == SpecFault /\ WF_vars(WorkerStep) /\ WF_vars(TopStep)

\* ---- the mirror function
NextDryRun == \E outcome \in DrOutcomes : DrJob(outcome)
InitDryRun == RSInitIdle /\ SyIdle /\ AgIdle /\ InIdle /\ DcIdle /\ MnIdle /\ FeIdle /\ DrInit /\ StIdle /\ SbIdle /\ ExIdle /\ WtIdle /\ CmIdle /\ HsIdle
SpecDryRun == InitDryRun /\ [][NextDryRun]_vars

\* ---- syncCache / syncGMC from thread start
NextStartup ==
    \/ StPopen \/ StInitialPut \/ StInitialWalk \/ StInitialDone \/ StEvent
    \/ \E qualifies \in BOOLEAN : StRead(qualifies)
    \/ \E quick \in BOOLEAN : SnGet(quick)
    \/ SnStart \/ SnDone
InitStartup ==
    RSInitIdle /\ SyIdle /\ AgIdle /\ InIdle /\ DcIdle /\ MnIdle /\ FeIdle /\ DrIdle /\ StInit /\ SbIdle /\ ExIdle /\ WtIdle /\ CmIdle /\ HsIdle
SpecStartup == InitStartup /\ [][NextStartup]_vars

NextExclude ==
    \/ ExTick \/ ExPopen \/ ExInitialSync
    \/ \E dir \in exDirs, file \in ExFiles : ExEvent(dir, file)
    \/ ExRead \/ ExSyncerSkip \/ ExSyncerSync
InitExclude ==
    RSInitIdle /\ SyIdle /\ AgIdle /\ InIdle /\ DcIdle /\ MnIdle /\ FeIdle /\ DrIdle /\ StIdle /\ SbIdle /\ ExInit /\ WtIdle /\ CmIdle /\ HsIdle
SpecExclude == InitExclude /\ [][NextExclude]_vars

WtMonitorStep == WtReadline \/ WtTest \/ WtExcept
NextWatch ==
    \/ \E ok \in BOOLEAN : WtPopen(ok)
    \/ WtWrite \/ WtChildExit \/ WtReadline \/ WtTest \/ WtExcept \/ WtTopExit
InitWatch ==
    RSInitIdle /\ SyIdle /\ AgIdle /\ InIdle /\ DcIdle /\ MnIdle /\ FeIdle /\ DrIdle /\ StIdle /\ SbIdle /\ ExIdle /\ WtInit /\ CmIdle /\ HsIdle
SpecWatch == InitWatch /\ [][NextWatch]_vars
\* The Monitor thread and the main thread are scheduled; files need not
\* change and inotifywait need not end.
LiveWatch ==
    /\ SpecWatch
    /\ WF_vars(\E ok \in BOOLEAN : WtPopen(ok))
    /\ WF_vars(WtMonitorStep)
    /\ WF_vars(WtTopExit)

NextCmd == \E sources \in CmSources : CmDoit(sources)
InitCmd ==
    RSInitIdle /\ SyIdle /\ AgIdle /\ InIdle /\ DcIdle /\ MnIdle /\ FeIdle /\ DrIdle /\ StIdle /\ SbIdle /\ ExIdle /\ WtIdle /\ CmInit /\ HsIdle
SpecCmd == InitCmd /\ [][NextCmd]_vars

\* ---- INotify with one root: the program's only call is add("/d") with the
\* default recursive=True and a mask that has CREATE and DELETE; after it
\* directories come and go below /d and the event loop processes the records.
AddRoot == inLast = NoCall /\ Add(PD, TRUE, "dirs")
NextTrack ==
    \/ AddRoot
    \/ \E q \in SeqToSet(WalkOrder) : Mkdir(q)
    \/ \E q \in SeqToSet(WalkOrder) : Rmdir(q)
    \/ ProcEvent
SpecTrack == InitINotify /\ [][NextTrack]_vars

NextProbar ==
    \/ HsTick \/ HsPut \/ HsInitialize
    \/ \E copied \in BOOLEAN : HsCopyNext(copied)
    \/ HsDive \/ HsGet
InitProbar ==
    RSInitIdle /\ SyIdle /\ AgIdle /\ InIdle /\ DcIdle /\ MnIdle /\ FeIdle /\ DrIdle /\ StIdle /\ SbIdle /\ ExIdle /\ WtIdle /\ CmIdle /\ HsInit
SpecProbar == InitProbar /\ [][NextProbar]_vars
-----------------------------------------------------------------------------
(* C1: jobs are invoked in the order they were put, and the invocation of a
   job does not start before the invocation of every earlier job has
   completed; at most one invocation is in progress at any time. *)
DispatcherOrdering ==
    /\ IsPrefix(rsDispatched, rsPutLog)
    /\ Cardinality(rsActive) <= 1
    /\ \A i \in DOMAIN rsDispatched :
          \A j \in DOMAIN rsDispatched :
             i < j => rsDispatched[i].id \in rsCompleted

\* Two jobs were put, the first has completed and the second is running.
DispatcherOrderingWitness ==
    /\ Len(rsDispatched) >= 2
    /\ rsActive = {rsDispatched[2].id}
    /\ rsDispatched[1].id \in rsCompleted

(* C2: after an rsync that exits non-zero the worker is still running, and
   every job that was put (before or after the failing one) is eventually
   dequeued and handed to __doit; the failure left an error log record. *)
FailureIsolation ==
    (\E i \in DOMAIN rsResult : rsResult[i] = "nonzero")
        ~> (rsPc # "dead" /\ rsDispatched = rsPutLog
            /\ \A i \in DOMAIN rsResult :
                  rsResult[i] = "nonzero" => rsDispatched[i].id \in SeqToSet(rsErrLog))

\* A job failed with a non-zero status and a later job was invoked after it.
FailureIsolationWitness ==
    /\ Len(rsResult) >= 2
    /\ rsResult[1] = "nonzero"
    /\ rsDispatched[2].id \in rsCompleted
    /\ rsErrLog # <<>>


-----------------------------------------------------------------------------
(* Debounce claims: histories of the bounded runs *)

\* The keys for which an event was put, and the events and passes of a key.
KeysPut == {putLog[i].key : i \in DOMAIN putLog}
KeyEvents(k) == {i \in DOMAIN putLog : putLog[i].key = k}
FirstEvent(k) == CHOOSE i \in KeyEvents(k) : \A j \in KeyEvents(k) : i <= j
Passes(k) == {i \in DOMAIN syncLog : syncLog[i].key = k}
Invocations(k) == {i \in Passes(k) : syncLog[i].ran}

\* Every event put has been taken from the queue and no pass is in progress.
Drained == dq = <<>> /\ spc = "get"

\* All events of key k have a timestamp at most `delay` after the first one's.
BurstWithin(k) ==
    \A i \in KeyEvents(k) : putLog[i].t <= putLog[FirstEvent(k)].t + delay

\* All later events of key k have a timestamp less than `delay` after the first one's.
BurstBefore(k) ==
    \A i \in KeyEvents(k) \ {FirstEvent(k)} : putLog[i].t < putLog[FirstEvent(k)].t + delay

(* C3, as stated: N events of one key whose timestamps all lie within `delay`
   of the first one's cause exactly one mirror invocation for that key. *)
CoalescingWithin ==
    Drained => \A k \in KeysPut : BurstWithin(k) => Cardinality(Invocations(k)) = 1

(* C3, amended: N events of one key whose timestamps are all less than `delay`
   after the first one's cause exactly one pass of the loop beyond the
   watermark test; in syncCache and syncGMC that pass makes exactly one mirror
   invocation, in sync2SFMC at most one (none for a file that cannot be archived
   or is not sane). *)
CoalescingBefore ==
    Drained =>
        \A k \in KeysPut :
            BurstBefore(k) =>
                /\ Cardinality(Passes(k)) = 1
                /\ variant # "sync2SFMC" => Cardinality(Invocations(k)) = 1

\* Two events of one key at different times were coalesced into one invocation.
CoalescingWitness ==
    /\ Drained /\ delay > 0
    /\ \E k \in KeysPut :
          /\ \E i \in KeyEvents(k) : putLog[i].t > putLog[FirstEvent(k)].t
          /\ BurstBefore(k)
          /\ Cardinality(Invocations(k)) = 1
          /\ \E i \in DOMAIN skipLog : skipLog[i].key = k

(* C4: with a delay D > 0, the mirror invocation an event with timestamp t0
   causes never starts before t0 + D. *)
DebounceTiming ==
    delay > 0 =>
        \A i \in DOMAIN syncLog :
            syncLog[i].ran => syncLog[i].start >= syncLog[i].t + delay

\* An invocation started exactly at t0 + D, and another one later than that.
DebounceTimingWitness ==
    /\ delay > 0
    /\ \E i \in DOMAIN syncLog : syncLog[i].ran /\ syncLog[i].start = syncLog[i].t + delay
    /\ \E i \in DOMAIN syncLog : syncLog[i].ran /\ syncLog[i].start > syncLog[i].t + delay

(* C6: when time keeps passing and events for one path keep arriving, mirror
   invocations keep being started: later events never postpone the pending
   sync for ever. *)
NoStarvation ==
    ([]<><<Tick>>_vars /\ []<><<LivePut>>_vars) => []<>(spc = "sync")

\* A second invocation has started while a further event already waits.
NoStarvationWitness == live /\ spc = "sync" /\ nSyncs >= 2 /\ dq # <<>>

(* C7: an event of one source directory is discarded only because of the
   watermark a pass for the same source directory has set, and once the queue
   is drained every source directory that had an event has had its own pass. *)
SourceIndependence ==
    /\ \A i \in DOMAIN skipLog : skipLog[i].owner = skipLog[i].src
    /\ Drained =>
          \A i \in DOMAIN putLog : \E j \in DOMAIN syncLog : syncLog[j].src = putLog[i].src

(* C24: no failed sync stops the thread that dispatches syncs or ends the
   process: the Syncer (Doit) thread is never dead and the program never exits. *)
NoHalt == spc # "dead" /\ ~exited

\* The stored watermark of event e's own key puts e among the quick updates.
OwnWatermark(e) ==
    /\ e.key \in DOMAIN prevTime
    /\ IF variant = "sync2SFMC" THEN e.t <= prevTime[e.key] + SFMCDelay
                                ELSE e.t < prevTime[e.key]

(* C27: the watermark stored for a key never decreases, and an event is
   discarded only when the watermark of its own key says so. *)
MonotonicWatermark ==
    [][ /\ \A k \in DOMAIN prevTime : k \in DOMAIN prevTime' /\ prevTime'[k] >= prevTime[k]
        /\ (Len(skipLog') > Len(skipLog)) => OwnWatermark(Head(dq)) ]_vars

\* A key's watermark has been set twice and an event of the key was discarded.
MonotonicWatermarkWitness ==
    \E k \in DOMAIN prevTime :
        /\ Cardinality(Passes(k)) >= 2
        /\ \E i \in DOMAIN skipLog : skipLog[i].key = k

\* One step of the dispatcher as seen by a job that waits for a retry.
RetryStep ==
    /\ (spc = "sync" /\ spc' # "sync") => (spc' = "get" /\ syncLog' = syncLog)
    /\ (Len(syncLog') > Len(syncLog)) => (spc = "sleep" \/ Len(dq') < Len(dq))
    /\ (Len(dq') < Len(dq) /\ ~OwnWatermark(Head(dq))) => (spc' \in {"sleep", "sync"})

(* C28: in syncCache and syncGMC a mirror invocation that has ended, failed or
   not, is followed by nothing but the next q.get(): no invocation is started
   without an event being dequeued, and an event dequeued with a timestamp
   that its key's watermark does not cover always starts a pass. *)
RetryOnLaterEvent == [][(variant \in {"syncCache", "syncGMC"}) => RetryStep]_vars

(* C30, as stated: whenever an event with timestamp t is discarded, a mirror
   invocation for its key has already been started at a time not earlier
   than t. *)
NoLostUpdate ==
    \A i \in DOMAIN skipLog :
        \E j \in DOMAIN syncLog :
            /\ syncLog[j].key = skipLog[i].key /\ syncLog[j].ran
            /\ syncLog[j].start >= skipLog[i].t

(* C30, as the code has it: whenever an event with timestamp t is discarded, a
   pass of the loop for its key has already got beyond its sleep at a time not
   earlier than t; in syncCache and syncGMC that pass started a mirror
   invocation, in sync2SFMC it did so when the file was readable and sane. *)
NoLostPass ==
    \A i \in DOMAIN skipLog :
        \E j \in DOMAIN syncLog :
            /\ syncLog[j].key = skipLog[i].key
            /\ syncLog[j].start >= skipLog[i].t
            /\ (variant # "sync2SFMC" => syncLog[j].ran)

\* An event was discarded whose timestamp is later than its key's first event.
NoLostPassWitness ==
    \E i \in DOMAIN skipLog :
        /\ skipLog[i].t > putLog[FirstEvent(skipLog[i].key)].t
        /\ \E j \in DOMAIN syncLog : syncLog[j].key = skipLog[i].key /\ syncLog[j].start > skipLog[i].t

-----------------------------------------------------------------------------
(* Pending Set *)

(* C5: the deadline is armed exactly while the pending set is non-empty; it
   takes a new value only when the set goes from empty to non-empty, and then
   now + delay; an event while the set is non-empty leaves it where it is; the
   set is emptied and the deadline cleared only together, by a flush that
   hands the set over. *)
PendingSetInvariant ==
    /\ [](agDeadline # NoDeadline <=> agPending # {})
    /\ [][ agDeadline' # agDeadline /\ agDeadline' # NoDeadline
             => agPending = {} /\ agPending' # {} /\ agDeadline' = agNow + agDelay ]_vars
    /\ [][ agPending # {} /\ agPending' # {} => agDeadline' = agDeadline ]_vars
    /\ [][ (agPending # {} /\ agPending' = {}) \/ (agDeadline # NoDeadline /\ agDeadline' = NoDeadline)
             => /\ agPending' = {} /\ agDeadline' = NoDeadline
                /\ agJobs' = Append(agJobs, [paths |-> agPending, at |-> agNow]) ]_vars

\* After a flush, a set of two paths whose second event came after the clock
\* had moved on from the arming, the deadline still where the first event put it.
PendingSetWitness ==
    /\ agJobs # <<>>
    /\ agDelay > 0
    /\ Cardinality(agPending) = 2
    /\ agSince >= 2
    /\ agDeadline # NoDeadline
    /\ agDeadline <= agNow

-----------------------------------------------------------------------------
(* Watch registry *)

(* C8: a path that is in the registry keeps its handle through every add, no
   inotify_add_watch call is made for it while it stays there, and so at most
   one such call has been made for a path since it was last removed. *)
IdempotentAdd ==
    /\ [](\A p \in DOMAIN inRegCalls : inRegCalls[p] <= 1)
    /\ [][ \A p \in DOMAIN inWatches \cap DOMAIN inWatches' :
               inWatches'[p] = inWatches[p] /\ inRegCalls'[p] = inRegCalls[p] ]_vars

\* add() was called for a path the registry already held, and has returned.
IdempotentAddWitness ==
    /\ inLast.op = "add"
    /\ inLast.path \in inLast.before
    /\ inLast.returned
    /\ inRegCalls[inLast.path] = 1

(* C9: after rm(p) has returned for a path p whose watch was installed
   recursively on a directory, neither p nor any path the registry held before
   the call and that has p as a string prefix is in the registry. *)
RecursiveRemoval ==
    (inLast.op = "rm" /\ inLast.returned /\ inLast.recursive)
        => \A q \in inLast.before : FindAtZero(q, inLast.path) => q \notin DOMAIN inWatches

(* C10: the path-to-handle map and the handle-to-path map are inverse
   bijections, the recursive-flag and mask maps have exactly the live handles
   as keys, and no rm of a watched path has failed on a missing entry. *)
RegistryConsistency ==
    /\ \A p \in DOMAIN inWatches :
          inWatches[p] \in DOMAIN inPaths /\ inPaths[inWatches[p]] = p
    /\ \A w \in DOMAIN inPaths :
          inPaths[w] \in DOMAIN inWatches /\ inWatches[inPaths[w]] = w
    /\ DOMAIN inRecursive = DOMAIN inPaths
    /\ DOMAIN inMask = DOMAIN inPaths
    /\ ~inKeyError

-----------------------------------------------------------------------------
(* Event loop *)

\* The step in which __procBuffer consumes the oldest record the kernel queued.
Consumes == inRaw # <<>> /\ inRaw' = Tail(inRaw)

\* The path of the event for the oldest record, when its wd is in the registry.
HeadPath == Join(inPaths[Head(inRaw).wd], Head(inRaw).name)

\* The directories that exist at or below a path.
TreeAt(path) == {q \in inFs : q = Resolve(path) \/ Below(Resolve(path), q)}

(* C12: every record the kernel delivered is published when it is consumed,
   once and behind the events published before it, and nothing else is
   published: records are neither dropped nor reordered, whatever the registry
   holds for their handle. *)
EventOrdering ==
    [][ IF Consumes
        THEN \E ev \in {inQueue'[i] : i \in DOMAIN inQueue'} :
                inQueue' = Append(inQueue, ev) /\ ev.kind = Head(inRaw).kind
        ELSE inQueue' = inQueue ]_vars

(* C13: a Q_OVERFLOW record is published as an event of kind Q_OVERFLOW when
   it is consumed. *)
OverflowVisible ==
    [][ Consumes /\ Head(inRaw).kind = "Q_OVERFLOW"
          => /\ Len(inQueue') = Len(inQueue) + 1
             /\ inQueue'[Len(inQueue')].kind = "Q_OVERFLOW" ]_vars

(* C14: after a CREATE record of a directory is processed on a recursive watch,
   the new directory and every directory existing below it are in the
   registry, flagged recursive, with the mask of the owning watch; on a watch
   that is not recursive the registry is left as it was. *)
DynamicInstall ==
    [][ Consumes /\ Head(inRaw).kind = "CREATE" /\ Head(inRaw).wd \in DOMAIN inPaths
          => IF inRecursive[Head(inRaw).wd]
             THEN \A q \in {HeadPath} \cup TreeAt(HeadPath) :
                     /\ q \in DOMAIN inWatches'
                     /\ inWatches'[q] \in DOMAIN inRecursive' /\ inRecursive'[inWatches'[q]]
                     /\ inWatches'[q] \in DOMAIN inMask'
                     /\ inMask'[inWatches'[q]] = inMask[Head(inRaw).wd]
             ELSE UNCHANGED <<inWatches, inPaths, inRecursive, inMask>> ]_vars

(* C14, as the code has it: after a CREATE record of a directory is processed
   on a recursive watch, the new directory and every directory existing below
   it are paths of the registry; one that was registered before keeps its
   handle, and one that was not is entered with the mask of the owning watch
   and flagged recursive exactly when it is still a directory. On a watch that
   is not recursive the registry is left as it was. *)
DynamicInstallNew ==
    [][ Consumes /\ Head(inRaw).kind = "CREATE" /\ Head(inRaw).wd \in DOMAIN inPaths
          => IF inRecursive[Head(inRaw).wd]
             THEN \A q \in {HeadPath} \cup TreeAt(HeadPath) :
                     /\ q \in DOMAIN inWatches'
                     /\ q \in DOMAIN inWatches => inWatches'[q] = inWatches[q]
                     /\ q \notin DOMAIN inWatches
                           => /\ inWatches'[q] \in DOMAIN inRecursive'
                              /\ inRecursive'[inWatches'[q]] = IsDir(inFs, q)
                              /\ inWatches'[q] \in DOMAIN inMask'
                              /\ inMask'[inWatches'[q]] = inMask[Head(inRaw).wd]
             ELSE UNCHANGED <<inWatches, inPaths, inRecursive, inMask>> ]_vars

\* The event loop has just registered a created directory that was not in the
\* registry, and a directory below it with it.
DynamicInstallWitness ==
    /\ inLast.by = "event" /\ inLast.op = "add" /\ inLast.returned
    /\ inLast.path \notin inLast.before
    /\ inLast.path \in DOMAIN inWatches /\ inRecursive[inWatches[inLast.path]]
    /\ \E q \in DOMAIN inWatches \ inLast.before : Below(inLast.path, q)

(* C15: after a DELETE record of a directory is processed, the event's path is
   not in the registry, and when its watch had been installed recursively no
   path below it is in the registry either. *)
RemovalOnDelete ==
    [][ Consumes /\ Head(inRaw).kind = "DELETE" /\ Head(inRaw).wd \in DOMAIN inPaths
          => /\ HeadPath \notin DOMAIN inWatches'
             /\ (HeadPath \in DOMAIN inInstalled /\ inInstalled[HeadPath])
                   => \A q \in DOMAIN inWatches : Below(HeadPath, q) => q \notin DOMAIN inWatches' ]_vars

(* C16: an add whose inotify_add_watch fails (the path is not there) returns,
   leaves the path out of the registry and leaves every other entry of the
   registry as it was. *)
InstallFailure ==
    [][ (inLast'.op = "add" /\ inLast'.path \notin DOMAIN inWatches
                            /\ ~IsDir(inFs, inLast'.path))
          => /\ inLast'.returned
             /\ UNCHANGED <<inWatches, inPaths, inRecursive, inMask>> ]_vars

\* Path q is neither p nor a directory below p in the filesystem tree.
Outside(p, q) == q # p /\ ~Below(Resolve(p), Resolve(q))

(* C29: a call of rm(p) that returns leaves every watched path that is not p
   and not below p in the registry, with the handle, the recursive flag and
   the mask it had. *)
RemovalFrame ==
    [][ (inOps' = inOps + 1 /\ inLast'.op = "rm" /\ inLast'.returned)
          => \A q \in DOMAIN inWatches : Outside(inLast'.path, q) =>
                /\ q \in DOMAIN inWatches'
                /\ inWatches'[q] = inWatches[q]
                /\ inWatches[q] \in DOMAIN inRecursive
                     => /\ inWatches[q] \in DOMAIN inRecursive'
                        /\ inRecursive'[inWatches[q]] = inRecursive[inWatches[q]]
                        /\ inMask'[inWatches[q]] = inMask[inWatches[q]] ]_vars

\* The directories that exist below the root, and the watched paths below it.
DirsBelow(root) == {d \in inFs : Below(root, d)}
WatchedBelow(root) == {q \in DOMAIN inWatches : Below(root, q)}

(* C32: once the root has been added recursively, whenever every record the
   kernel has queued has been processed, the watched paths below the root are
   the directories that exist below it. *)
RegistryTracksTree ==
    (PD \in DOMAIN inWatches /\ inRaw = <<>>) => WatchedBelow(PD) = DirsBelow(PD)

-----------------------------------------------------------------------------
(* Decoder *)

\* The offsets at which the records of a well-formed stream begin or end.
RECURSIVE Boundaries(_, _)
Boundaries(stream, off) ==
    IF Len(stream) - off < HdrSize THEN {off}
    ELSE {off} \cup Boundaries(stream, off + HdrSize + Clip(stream, Unpack(SubSeq(stream, off + 1, Len(stream))).n))

\* The last record boundary at or before the split.
LastBoundary ==
    CHOOSE b \in Boundaries(dcStream, 0) :
        b <= dcSplit /\ \A c \in Boundaries(dcStream, 0) : c <= dcSplit => c <= b

(* C11: after the first read the bytes of the incomplete trailing record are
   what the decoder retains, and after the second read the events published
   are the ones one read of the whole stream publishes, in the same order,
   with nothing left over. *)
ResumableDecoding ==
    /\ dcReads = 1 => dcBuf = SubSeq(dcStream, LastBoundary + 1, dcSplit)
    /\ dcReads = 2 =>
          /\ dcPub = ProcBuffer(dcStream, DcPaths, <<>>).events
          /\ dcBuf = ProcBuffer(dcStream, DcPaths, <<>>).rest

\* ---- INotify.py as a program

MainInRegistry == mnPc \in {"test", "call", "store"}
NotifierInRegistry == ntPc \in {"test", "call", "store"}

(* C17: the two threads are never inside a registry operation at once: while
   the INotify thread is in an add caused by an event, the main thread is not
   in an add of its own. *)
SingleWriter == ~(MainInRegistry /\ NotifierInRegistry)

(* C19: once the INotify thread has died, the main thread's consumer loop
   ends and the program exits. *)
NotifierFatal == (ntPc = "dead") ~> (mnPc = "exited")

\* ---- fault escalation

Raised(w) == w \in workers /\ wkPc[w] # "runMain"

(* C18: a worker whose runMain has raised puts its exception on the exception
   queue, no worker puts more than once, and after a raise the top level
   eventually logs and ends the process with a status that is not zero. *)
FaultEscalation ==
    /\ [](\A w \in workers : wkPuts[w] <= 1)
    /\ \A w \in Monitors \cup {"Syncer"} :
          Raised(w) ~> (topLogged /\ topPc = "exited" /\ exitStatus > 0)

\* ---- the mirror function

(* C20: with the dry-run option set, every job processed has its command
   logged, starts no subprocess and ends with the result True. *)
DryRun ==
    drDryRun => \A i \in DOMAIN drLog :
                    drLog[i].cmdLogged /\ ~drLog[i].subprocess /\ drLog[i].result = "True"

\* A dry run that has processed several jobs.
DryRunWitness == drDryRun /\ Len(drLog) >= 2

\* ---- RSync.join

(* C21: when join has returned, every job that had been put before join was
   called has been dequeued and its processing has finished. *)
JoinWaits == rsJoin = "returned" => \A i \in 1..rsJoinSeen : i \in rsCompleted

(* C23: the sources rsync is invoked with for a job are the items the job's
   collection held when it was put. *)
JobImmutable == \A obj \in DOMAIN sbCmd : sbCmd[obj] = sbPutLog[obj]

\* ---- syncCache / syncGMC from thread start

(* C22: in syncGMC at most one rsync subprocess is in progress at any time,
   the Monitor's initial syncs and the Syncer's syncs counted together. *)
SerializedTraffic == stProg = "syncGMC" => Cardinality(stActive) <= 1

\* An initial sync is in progress while a line from inotifywait waits unread.
SerializedTrafficWitness == stProg = "syncGMC" /\ "Monitor" \in stActive /\ stPipe > 0

(* C26: with the initial sync enabled it is begun (enqueued in syncCache,
   performed in syncGMC) before the watching of the tree has begun; with it
   disabled nothing is enqueued or synced before the first line is read. *)
InitialBeforeWatch ==
    /\ stInitAt.done => ~stInitAt.watching
    /\ ~stInitial => (stRead > 0 \/ (stQueue = <<>> /\ stSyncs = 0 /\ stActive = {}))

(* C26, as the code has it: with the initial sync enabled it is begun after
   inotifywait has been started and before the Monitor reads its first line,
   and the Monitor does not reach its reading loop without it; with it
   disabled nothing is enqueued or synced before the first line is read. *)
InitialAfterWatch ==
    /\ stInitAt.done => (stInitAt.watching /\ stInitAt.read = 0)
    /\ (stInitial /\ stMon = "loop") => stInitAt.done
    /\ ~stInitial => (~stInitAt.done /\ (stRead > 0 \/ (stQueue = <<>> /\ stSyncs = 0 /\ stActive = {})))

\* The initial sync has been begun and a line has been read after it.
InitialAfterWatchWitness == stInitial /\ stInitAt.done /\ stRead > 0 /\ stSyncs > 0

-----------------------------------------------------------------------------
(* Claims about syncGMC's exclude patterns *)

(* C25: no rsync command built by syncit has a source that matches a
   configured exclude pattern, and none is brought about by a path that
   matches one. *)
ExcludeWins ==
    \A i \in DOMAIN exCmds :
        /\ ~Excluded(exExclude, exCmds[i].src)
        /\ ~Excluded(exExclude, exCmds[i].file)

\* The names of a line after its last 'gliders', when it has one among its
\* last n names.
HasGliders(line, n) == \E i \in 1..Len(line) : line[i] = "gliders" /\ Len(line) - i < n
AfterGliders(line) ==
    LET i == CHOOSE i \in 1..Len(line) :
                 line[i] = "gliders" /\ \A j \in (i + 1)..Len(line) : line[j] # "gliders"
    IN  SubSeq(line, i + 1, Len(line))

\* The item a line is put on the queue as, without the record of its cause.
Tuple(item) == <<item.t, item.src, item.prefix, item.qDelay>>

\* The Monitor reads a line: with 'gliders' among its last n names it is put
\* on the queue once, as (time, line, names after 'gliders', True); otherwise
\* the queue, the watermarks and the commands stay as they are.
FilterStep(n) ==
    Len(exReads') > Len(exReads) =>
        LET line == Head(exPipe).line IN
        IF HasGliders(line, n)
        THEN /\ Len(exQueue') = Len(exQueue) + 1
             /\ SubSeq(exQueue', 1, Len(exQueue)) = exQueue
             /\ Tuple(exQueue'[Len(exQueue')]) = <<exNow, line, AfterGliders(line), TRUE>>
             /\ exPrev' = exPrev
        ELSE exQueue' = exQueue /\ exPrev' = exPrev /\ exCmds' = exCmds

(* C33, as stated: a line with no name equal to 'gliders' is dropped with no
   side effect, and a line with such a name is put on the Syncer's queue
   exactly once, as the 4-tuple (timestamp, event directory, path relative to
   the nearest enclosing 'gliders', True). *)
TriggerFiltering == [][FilterStep(Len(Head(exPipe).line))]_vars

(* C33, as the code has it: the same, where a line counts as having 'gliders'
   when that name is among its last MaxTgt names. *)
TriggerFilteringNear == [][FilterStep(MaxTgt)]_vars

\* The Monitor has read a line below 'gliders' and put it, and has read and
\* dropped a line that has no 'gliders' in its last MaxTgt names.
TriggerFilteringWitness ==
    /\ \E i \in DOMAIN exReads : HasGliders(exReads[i], MaxTgt) /\ AfterGliders(exReads[i]) # <<>>
    /\ \E i \in DOMAIN exReads : ~HasGliders(exReads[i], MaxTgt)
    /\ Len(exQueue) = 1 /\ exCmds = <<>>

-----------------------------------------------------------------------------
(* Claims about the end of inotifywait *)

(* C31: when inotifywait has exited, the process eventually terminates with
   status 1 (the Monitor raises 'inotifywait failed' and the main thread
   exits); the Monitor does not go round its loop on empty reads for ever. *)
WatcherDetected == (wtChild = "exited") ~> (wtStatus = 1)

-----------------------------------------------------------------------------
(* Claims about the command line of RSync.__doit *)

\* The layout of one command: the target last, the job's sources in job order
\* right before it, and right before them one "--exclude", pattern pair for
\* each configured pattern, in the order configured.
Layout(args, sources, cmd) ==
    LET n == Len(cmd)
        k == Len(sources)
        ex == Given(args.rsyncExclude)
        base == n - k - 1 - 2 * Len(ex)
    IN  /\ n >= 1 + k + 2 * Len(ex)
        /\ cmd[n] = args.rsyncTarget
        /\ SubSeq(cmd, n - k, n - 1) = sources
        /\ \A j \in 1..Len(ex) :
              cmd[base + 2 * j - 1] = "--exclude" /\ cmd[base + 2 * j] = ex[j]

(* C34: every command __doit builds ends with the configured target, has all
   of the job's sources in job order right before it, and has each configured
   exclude pattern before the sources, right after an "--exclude" of its own. *)
CommandLayout == \A i \in DOMAIN cmLog : Layout(cmArgs, cmLog[i].sources, cmLog[i].cmd)

\* A command was built for a job of two sources with two patterns configured.
CommandLayoutWitness ==
    \E i \in DOMAIN cmLog :
        /\ Len(cmLog[i].sources) = 2
        /\ cmArgs.rsyncExclude # None /\ Len(cmArgs.rsyncExclude) = 2
        /\ cmArgs.rsyncOpt # None

-----------------------------------------------------------------------------
(* Claims about probar's Historical thread *)

\* The stems found by the walk.
HsStems == {hsWalk[i] : i \in DOMAIN hsWalk}

\* The groups copied so far are the least stems, least first, each once.
CopiedAscending ==
    /\ Len(hsCopied) <= Cardinality(HsStems)
    /\ hsIndex = Len(hsCopied)
    /\ \A i \in DOMAIN hsCopied :
          /\ hsCopied[i] \in HsStems
          /\ Cardinality({k \in HsStems : k < hsCopied[i]}) = i - 1

\* One step: the index stays or goes up by one, with one more group copied;
\* a trigger taken from the queue with a time not later than the end of the
\* last copy-and-dive cycle is dropped, and with all groups copied nothing
\* more is copied.
ReplayStep ==
    /\ hsIndex' = hsIndex \/ (hsIndex' = hsIndex + 1 /\ Len(hsCopied') = Len(hsCopied) + 1)
    /\ (Len(hsQueue') < Len(hsQueue) /\ hsCycleEnd >= 0 /\ Head(hsQueue) <= hsCycleEnd)
          => (hsPc' = "get" /\ hsCopied' = hsCopied)
    /\ (hsPc # "init" /\ Len(hsCopied) = Cardinality(HsStems)) => hsCopied' = hsCopied

(* C35: the Historical thread copies the groups in ascending key order, each
   at most once, its index going up by one per copy and never beyond the
   number of groups; a trigger not later than the end of the previous
   copy-and-dive cycle is dropped without copying; once all groups are copied
   triggers copy nothing. *)
HistoricalReplay == [][CopiedAscending /\ CopiedAscending' /\ ReplayStep]_vars

\* Two groups found largest stem first have both been copied, the second for
\* a trigger, its cycle has ended, and every trigger put has been taken.
HistoricalReplayWitness ==
    /\ Len(hsWalk) >= 2 /\ hsWalk[1] > hsWalk[2]
    /\ Len(hsCopied) = 2 /\ hsCycleEnd >= 0
    /\ hsPuts = MaxTriggers /\ hsQueue = <<>> /\ hsPc = "get"
=============================================================================
